---- MODULE Spec2Model ----
(***************************************************************************)
(* Model of prime_checker: the CPU primality testers (Miller-Rabin,        *)
(* Lucas-Lehmer, Lucas sequence, BPSW), the dispatcher is_prime_cpu and    *)
(* the random probable-prime generator.  Every tester is an operator       *)
(* computed the way the Python source computes it; the state machine       *)
(* records the last call made by a client and its outcome.                 *)
(***************************************************************************)
EXTENDS Integers, Sequences, FiniteSets, TLC

VARIABLES
    op,       \* name of the last call made ("init" before any call)
    n,        \* candidate passed to the call
    alg,      \* algorithm string passed to is_prime_cpu
    hasP,     \* whether kwargs carried the key 'p'
    p,        \* exponent passed (Lucas-Lehmer) or derived by the dispatcher
    rounds,   \* MillerRabin.rounds
    det,      \* use_deterministic as MillerRabin.test received it
    kwdet,    \* use_deterministic as the caller of is_prime_cpu passed it
    showp,    \* show_progress flag
    a,        \* base passed to _witness_test
    ret,      \* outcome: "True", "False", "ValueError", "none"
    err,      \* which ValueError: "requires-p", "unknown-algorithm", or ""
    used,     \* testers the dispatcher or BPSW.test invoked, in order
    llp,      \* exponent handed to LucasLehmer.test (0 when not invoked)
    foundD,   \* whether _find_D returned a discriminant (not None)
    D,        \* the discriminant returned by _find_D
    ranLadder,\* whether _lucas_sequence_test ran
    U,        \* local U of _lucas_sequence_test at its return
    ds,       \* s returned by decompose_n_minus_1
    dd,       \* d returned by decompose_n_minus_1
    gpc,      \* generate_random_probable_prime: "idle", "loop", "done"
    gbits,    \* its argument bits
    gcand,    \* the candidate of the latest loop iteration
    gret,     \* the value it returned
    bign,     \* candidate of 2**64 or more, as limbs (all 0 otherwise)
    wits,     \* witnesses MillerRabin.test evaluated, in order
    again,    \* whether the call was made a second time
    ret2,      \* outcome of the second call ("none" before it)
    chosen,    \* the list MillerRabin.test named witnesses (empty when none was built)
    stage,     \* outcome of the Miller-Rabin stage of BPSW.test ("none" when not run)
    lls,       \* values of s after each Lucas-Lehmer iteration, in order
    probes,    \* the values of D that _find_D tested, in order
    cli,       \* the generate command of cli.py with --mersenne: its loop state
    conc,     \* two invocations running at once: their positions and the memory they use
    ll        \* LucasLehmer.test run iteration by iteration, once with each flag

vars == <<op, n, alg, hasP, p, rounds, det, kwdet, showp, a, ret, err, used, llp,
          foundD, D, ranLadder, U, ds, dd, gpc, gbits, gcand, gret,
          bign, wits, again, ret2,
          chosen,
          stage,
          lls,
          probes,
          cli,
          conc,
          ll>>

(***************************************************************************)
(* Bounds of the model.                                                    *)
(***************************************************************************)
MinN == 3
MaxN == 130
MaxP == 14
MaxBits == 6
MaxRounds == 2
MaxWideRounds == 1
DefaultRounds == 20
TrialLimit == 1000
ProgressFrom == 1000
DefaultBits == 256
MinPBits == 7
BitsPerPBit == 100
MaxCount == 2
ConcBits == 2
MaxConcDraws == 4

(***************************************************************************)
(* Arithmetic helpers of the big-integer library.                          *)
(***************************************************************************)
RECURSIVE Pow2(_)
Pow2(e) == IF e <= 0 THEN 1 ELSE 2 * Pow2(e - 1)

RECURSIVE bit_length(_)
bit_length(x) == IF x <= 0 THEN 0 ELSE 1 + bit_length(x \div 2)

RECURSIVE bit_count(_)
bit_count(x) == IF x <= 0 THEN 0 ELSE (x % 2) + bit_count(x \div 2)

isqrt(x) == CHOOSE r \in 0..x : r * r <= x /\ (r + 1) * (r + 1) > x

RECURSIVE mod_exp(_, _, _)
mod_exp(base, exp, mod) ==
    IF exp = 0 THEN 1 % mod
    ELSE LET h  == mod_exp(base, exp \div 2, mod)
             sq == (h * h) % mod
         IN  IF exp % 2 = 1 THEN (sq * (base % mod)) % mod ELSE sq

RECURSIVE JacobiLoop(_, _, _)
JacobiLoop(x, m, r) ==
    IF x = 0 THEN (IF m = 1 THEN r ELSE 0)
    ELSE IF x % 2 = 0
         THEN JacobiLoop(x \div 2, m, IF (m % 8) \in {3, 5} THEN -r ELSE r)
         ELSE JacobiLoop(m % x, x, IF x % 4 = 3 /\ m % 4 = 3 THEN -r ELSE r)

jacobi_symbol(x, m) == JacobiLoop(x % m, m, 1)

gmpy2_is_prime(x) ==
    /\ x >= 2
    /\ \A i \in 2..isqrt(x) : x % i # 0

\* a check that no candidate passes
is_probably_prime_never(x, k) == FALSE

is_probably_prime(x, k) == gmpy2_is_prime(x)

generate_mersenne_candidate(e) == Pow2(e) - 1


(***************************************************************************)
(* utils.py                                                                *)
(***************************************************************************)
RECURSIVE DecomposeLoop(_, _)
DecomposeLoop(s, d) ==
    IF d % 2 = 0 THEN DecomposeLoop(s + 1, d \div 2) ELSE <<s, d>>

\* decompose_n_minus_1 counting the halvings from 1
decompose_n_minus_1_from_one(x) == DecomposeLoop(1, x - 1)

\* decompose_n_minus_1 halving n instead of n - 1
decompose_n(x) == DecomposeLoop(0, x)

decompose_n_minus_1(x) == DecomposeLoop(0, x - 1)

\* is_prime_small with the trial-division range cut one short
is_prime_small_short(x) ==
    IF x < 2 THEN FALSE
    ELSE IF x = 2 THEN TRUE
    ELSE IF x % 2 = 0 THEN FALSE
    ELSE IF x < TrialLimit
         THEN \A i \in 3..(isqrt(x) - 1) : i % 2 = 0 \/ x % i # 0
         ELSE gmpy2_is_prime(x)

\* is_prime_small rejecting only what lies below 1
is_prime_small_one(x) ==
    IF x < 1 THEN FALSE
    ELSE IF x = 2 THEN TRUE
    ELSE IF x % 2 = 0 THEN FALSE
    ELSE IF x < TrialLimit
         THEN \A i \in 3..isqrt(x) : i % 2 = 0 \/ x % i # 0
         ELSE gmpy2_is_prime(x)

is_prime_small(x) ==
    IF x < 2 THEN FALSE
    ELSE IF x = 2 THEN TRUE
    ELSE IF x % 2 = 0 THEN FALSE
    ELSE IF x < TrialLimit
         THEN \A i \in 3..isqrt(x) : i % 2 = 0 \/ x % i # 0
         ELSE gmpy2_is_prime(x)

\* the candidate with the random part one bit too wide
gen_candidate_wide(bits, r) ==
    LET c == Pow2(bits) + r
    IN  IF c % 2 = 0 THEN c + 1 ELSE c

\* the candidate without the adjustment of even values
gen_candidate_unadjusted(bits, r) == Pow2(bits - 1) + r

\* lines 22-24: the candidate built from the random draw r
gen_candidate(bits, r) ==
    LET c == Pow2(bits - 1) + r
    IN  IF c % 2 = 0 THEN c + 1 ELSE c

\* random.getrandbits(bits - 1)
getrandbits(k) == 0..(Pow2(k) - 1)

(***************************************************************************)
(* cpu_algorithms.py: Miller-Rabin                                         *)
(***************************************************************************)
deterministic_bases == <<2, 3, 5, 7, 11, 13, 17, 19, 23, 29, 31, 37>>

\* n < 2**64, computed without leaving the machine integers
BelowTwoTo64(x) ==
    (((x \div 65536) \div 65536) \div 65536) \div 65536 <= 0

\* n < 3317044064679887385961981, compared limb by limb in base 10^9
BelowDetThreshold(x) ==
    LET lo  == x % 1000000000
        mid == (x \div 1000000000) % 1000000000
        hi  == (x \div 1000000000) \div 1000000000
    IN  \/ hi < 3317044
        \/ hi = 3317044 /\ mid < 64679887
        \/ hi = 3317044 /\ mid = 64679887 /\ lo < 385961981

RECURSIVE SquareLoop(_, _, _)
SquareLoop(x, m, left) ==
    IF left <= 0 THEN FALSE
    ELSE LET y == mod_exp(x, 2, m)
         IN  IF y = m - 1 THEN TRUE
             ELSE IF y = 1 THEN FALSE
             ELSE SquareLoop(y, m, left - 1)

\* _witness_test that forgets the x = n - 1 case before squaring
witness_test_no_minus_one(b, m, s, d) ==
    LET x == mod_exp(b, d, m)
    IN  IF x = 1 THEN TRUE ELSE SquareLoop(x, m, s - 1)

witness_test(b, m, s, d) ==
    LET x == mod_exp(b, d, m)
    IN  IF x = 1 \/ x = m - 1 THEN TRUE ELSE SquareLoop(x, m, s - 1)

\* lines 54-58: every witness must pass, the first failure returns False
RunWitnesses(ws, m, s, d) ==
    \A i \in 1..Len(ws) : witness_test(ws[i], m, s, d)

\* line 51: the possible lists of random witnesses
random_witnesses(m, r) == [1..r -> 2..(m - 2)]

\* whether MillerRabin.test reaches line 51 and draws at random
DrawsAtRandom(x, useDet) ==
    /\ x > 3
    /\ x % 2 # 0
    /\ ~BelowTwoTo64(x)
    /\ ~(useDet /\ BelowDetThreshold(x))

MRDraws(x, r, useDet) ==
    IF DrawsAtRandom(x, useDet) THEN random_witnesses(x, r) ELSE {<<>>}

\* lines 48-51: the list named witnesses
MillerRabin_witnesses(x, useDet, draws) ==
    IF useDet /\ BelowDetThreshold(x)
    THEN LET Below(b) == b < x
         IN  SelectSeq(deterministic_bases, Below)
    ELSE draws

\* MillerRabin.test accepting 1
MillerRabin_test_one(x, r, useDet, draws) ==
    IF x < 1 THEN FALSE
    ELSE IF x <= 3 THEN TRUE
    ELSE IF x % 2 = 0 THEN FALSE
    ELSE IF BelowTwoTo64(x) THEN is_prime_small(x)
    ELSE LET sd == decompose_n_minus_1(x)
         IN  RunWitnesses(MillerRabin_witnesses(x, useDet, draws), x, sd[1], sd[2])

MillerRabin_test(x, r, useDet, draws) ==
    IF x <= 1 THEN FALSE
    ELSE IF x <= 3 THEN TRUE
    ELSE IF x % 2 = 0 THEN FALSE
    ELSE IF BelowTwoTo64(x) THEN is_prime_small(x)
    ELSE LET sd == decompose_n_minus_1(x)
         IN  RunWitnesses(MillerRabin_witnesses(x, useDet, draws), x, sd[1], sd[2])

\* lines 54-58: the witnesses the loop evaluated, up to the first failure
RECURSIVE EvaluatedPrefix(_, _, _, _, _)
EvaluatedPrefix(ws, i, m, s, d) ==
    IF i > Len(ws) THEN ws
    ELSE IF witness_test(ws[i], m, s, d)
         THEN EvaluatedPrefix(ws, i + 1, m, s, d)
         ELSE SubSeq(ws, 1, i)

\* the witnesses MillerRabin.test evaluated: none on the early returns
MillerRabin_evaluated(x, r, useDet, draws) ==
    IF x <= 3 \/ x % 2 = 0 \/ BelowTwoTo64(x) THEN <<>>
    ELSE LET sd == decompose_n_minus_1(x)
         IN  EvaluatedPrefix(MillerRabin_witnesses(x, useDet, draws), 1, x, sd[1], sd[2])

(***************************************************************************)
(* cpu_algorithms.py: Lucas-Lehmer                                         *)
(***************************************************************************)
\* range(k): the iterator over 0 .. k - 1, held by the item it yields next
\* and its stop; bar tells whether a progress bar wraps it, shown counts the
\* items the bar has passed on
range(k) == [next |-> 0, stop |-> k, bar |-> FALSE, shown |-> 0]

\* a wrapper that withholds the last item of what it wraps
tqdm_short(iterable) == [iterable EXCEPT !.bar = TRUE, !.stop = @ - 1]

\* tqdm(iterable, desc=...): an iterator over the items of iterable that
\* counts each item on its bar as it passes it on
tqdm(iterable) == [iterable EXCEPT !.bar = TRUE]

\* whether the for statement gets another item to run its body on
HasNext(iterator) == iterator.next < iterator.stop

\* the iterator after it passed on its next item
Yield(iterator) ==
    [iterator EXCEPT !.next = @ + 1,
                     !.shown = IF iterator.bar THEN @ + 1 ELSE @]

\* lines 100-102: the iterator of the loop
LLIterator(e, show_progress) ==
    LET iterator == range(e - 2)
    IN  IF show_progress /\ e > ProgressFrom THEN tqdm(iterator) ELSE iterator

\* lines 104-105: the loop, on an exponent whose 2^p - 1 fits a machine word
RECURSIVE LLLoop(_, _, _)
LLLoop(s, Mp, iterator) ==
    IF ~HasNext(iterator) THEN s
    ELSE LLLoop((s * s - 2) % Mp, Mp, Yield(iterator))

\* lines 104-105: the values s takes, one per iteration
RECURSIVE LLTraceLoop(_, _, _, _)
LLTraceLoop(acc, s, Mp, iterator) ==
    IF ~HasNext(iterator) THEN acc
    ELSE LET s1 == (s * s - 2) % Mp
         IN  LLTraceLoop(Append(acc, s1), s1, Mp, Yield(iterator))

\* LucasLehmer.test: the values s takes after each iteration of its loop
LucasLehmer_trace(e, show_progress) ==
    IF e = 2 THEN <<>>
    ELSE IF ~is_prime_small(e) THEN <<>>
    ELSE LLTraceLoop(<<>>, 4, Pow2(e) - 1, LLIterator(e, show_progress))

\* Lucas-Lehmer iterating once too often
LucasLehmer_test_extra(e, show_progress) ==
    IF e = 2 THEN TRUE
    ELSE IF ~is_prime_small(e) THEN FALSE
    ELSE LET iterator == LLIterator(e, show_progress)
         IN  LLLoop(4, Pow2(e) - 1, [iterator EXCEPT !.stop = @ + 1]) = 0

LucasLehmer_test(e, show_progress) ==
    IF e = 2 THEN TRUE
    ELSE IF ~is_prime_small(e) THEN FALSE
    ELSE LLLoop(4, Pow2(e) - 1, LLIterator(e, show_progress)) = 0

(***************************************************************************)
(* gmpy2.mpz values of any length: sequences of limbs, the least one first *)
(***************************************************************************)
MpzLimbBits == 12
MpzRadix == 4096

\* the number of limbs that hold every value below 2^(e + 1)
MpzLen(e) == e \div MpzLimbBits + 1

\* in[st.k] and the carry st.c leave a limb and the carry into the next one
RECURSIVE MpzCarryLoop(_, _, _)
MpzCarryLoop(st, in, cnt) ==
    IF st.k < 1 \/ cnt <= 0 THEN st
    ELSE IF cnt <= 1
    THEN LET v == in[st.k] + st.c
         IN  [out |-> Append(st.out, v % MpzRadix), c |-> v \div MpzRadix,
              k |-> st.k + 1]
    ELSE MpzCarryLoop(MpzCarryLoop(st, in, cnt \div 2), in, cnt - (cnt \div 2))

\* the limbs of the value whose cnt positions hold the integers in[1..cnt],
\* of any size and sign; the value lies in 0 .. MpzRadix^cnt - 1
MpzCarry(in, cnt) ==
    MpzCarryLoop([out |-> <<>>, c |-> 0, k |-> 1], in, cnt).out

\* mpz(v) for 0 <= v < MpzRadix, in the length kept for the exponent e
MpzFromInt(v, e) ==
    MpzCarry([i \in 1..MpzLen(e) |-> IF i = 1 THEN v ELSE 0], MpzLen(e))

\* u == v for 0 <= v < MpzRadix
MpzIsInt(u, v) == u[1] = v /\ \A i \in 2..Len(u) : u[i] = 0

\* the sum of u[i] * u[k + 1 - i] over i in lo..hi
RECURSIVE MpzConvSum(_, _, _, _)
MpzConvSum(u, k, lo, hi) ==
    IF lo > hi THEN 0
    ELSE IF lo = hi THEN u[lo] * u[k + 1 - lo]
    ELSE LET mid == (lo + hi) \div 2
         IN  MpzConvSum(u, k, lo, mid) + MpzConvSum(u, k, mid + 1, hi)

\* u * u, in twice the length of u
MpzSquare(u) ==
    LET L   == Len(u)
        lo(k) == IF k + 1 - L > 1 THEN k + 1 - L ELSE 1
        hi(k) == IF k < L THEN k ELSE L
    IN  MpzCarry([k \in 1..(2 * L) |-> MpzConvSum(u, k, lo(k), hi(k))], 2 * L)

\* mpz(2)**e - 1
MpzMersenne(e) ==
    LET q == e \div MpzLimbBits
        r == e % MpzLimbBits
    IN  [i \in 1..MpzLen(e) |-> IF i <= q THEN MpzRadix - 1 ELSE Pow2(r) - 1]

\* y less 2^e - 1 when y >= 2^e - 1, for y below 2^(e + 1)
MpzReduceOnce(y, e) ==
    LET m == MpzMersenne(e)
    IN  IF \/ y[MpzLen(e)] > m[MpzLen(e)]
           \/ \A i \in 1..MpzLen(e) : y[i] = m[i]
        THEN MpzCarry([i \in 1..MpzLen(e) |-> y[i] - m[i]], MpzLen(e))
        ELSE y

\* x % (2^e - 1) for 0 <= x < 2^(2e): 2^e is 1 modulo 2^e - 1, so x is
\* congruent to the sum of its low e bits and of the bits above them
MpzModMersenne(x, e) ==
    LET q  == e \div MpzLimbBits
        r  == e % MpzLimbBits
        X(i) == IF i <= Len(x) THEN x[i] ELSE 0
        low(i) == IF i <= q THEN x[i]
                  ELSE IF i = q + 1 THEN x[i] % Pow2(r) ELSE 0
        high(i) == (X(q + i) \div Pow2(r))
                       + (X(q + i + 1) % Pow2(r)) * Pow2(MpzLimbBits - r)
        y  == MpzCarry([i \in 1..MpzLen(e) |-> low(i) + high(i)], MpzLen(e))
    IN  MpzReduceOnce(MpzReduceOnce(y, e), e)

\* line 105: (s * s - 2) % Mp for Mp = 2^e - 1 and 0 <= s < Mp; where
\* s * s - 2 is negative, % gives Mp + (s * s - 2)
LucasLehmer_step(u, e) ==
    LET sq == MpzSquare(u)
        m  == MpzMersenne(e)
    IN  IF MpzIsInt(sq, 0) \/ MpzIsInt(sq, 1)
        THEN MpzCarry([i \in 1..MpzLen(e) |->
                          IF i = 1 THEN m[i] + sq[1] - 2 ELSE m[i]], MpzLen(e))
        ELSE MpzModMersenne(
                 MpzCarry([i \in 1..Len(sq) |->
                              IF i = 1 THEN sq[i] - 2 ELSE sq[i]], Len(sq)), e)

\* LucasLehmer.test run iteration by iteration: no call entered
LLIdle ==
    [pc |-> "idle", p |-> 0, show_progress |-> FALSE, s |-> <<>>,
     iterator |-> range(0), ret |-> "none", calls |-> 0,
     first |-> [iterations |-> 0, ret |-> "none"]]

\* lines 91-102: LucasLehmer.test(e, show_progress) up to its loop
LLEnter(e, show_progress, calls, first) ==
    LET call == [LLIdle EXCEPT !.p = e, !.show_progress = show_progress,
                               !.calls = calls, !.first = first]
    IN  IF e = 2 THEN [call EXCEPT !.pc = "done", !.ret = "True"]
        ELSE IF ~is_prime_small(e)
        THEN [call EXCEPT !.pc = "done", !.ret = "False"]
        ELSE [call EXCEPT !.pc = "loop", !.s = MpzFromInt(4, e),
                          !.iterator = LLIterator(e, show_progress)]

(***************************************************************************)
(* cpu_algorithms.py: Lucas sequence test                                  *)
(***************************************************************************)
NoD == [found |-> FALSE, D |-> 0]

abs(x) == IF x < 0 THEN -x ELSE x

\* lines 148-151: the D that follows d
NextD(d) == IF d > 0 THEN -d - 2 ELSE -d + 2

\* the loop stepping D without changing its sign
RECURSIVE FindDLoop_same_sign(_, _)
FindDLoop_same_sign(d, m) ==
    IF jacobi_symbol(d, m) = -1 THEN [found |-> TRUE, D |-> d]
    ELSE LET next == d + 2
         IN  IF abs(next) > m THEN NoD ELSE FindDLoop_same_sign(next, m)

\* lines 143-153: one pass of the loop from the current D
RECURSIVE FindDLoop(_, _)
FindDLoop(d, m) ==
    IF jacobi_symbol(d, m) = -1 THEN [found |-> TRUE, D |-> d]
    ELSE LET next == IF d > 0 THEN -d - 2 ELSE -d + 2
         IN  IF abs(next) > m THEN NoD ELSE FindDLoop(next, m)

\* the search started from D = 3
find_D_from_three(m) == FindDLoop(3, m)

find_D(m) == FindDLoop(5, m)

\* lines 143-153: the values of D the loop passes to jacobi_symbol, in order
RECURSIVE FindDProbes(_, _)
FindDProbes(d, m) ==
    IF jacobi_symbol(d, m) = -1 THEN <<d>>
    ELSE IF abs(NextD(d)) > m THEN <<d>>
    ELSE <<d>> \o FindDProbes(NextD(d), m)

find_D_probes(m) == FindDProbes(5, m)

\* bin(k)[2:], most significant bit first
RECURSIVE BinDigits(_)
BinDigits(k) == IF k < 2 THEN <<k>> ELSE Append(BinDigits(k \div 2), k % 2)

\* lines 167-173: one iteration of the ladder on (U, V, Qk)
LadderStep(st, bit, m, d, P, Q) ==
    LET U1  == (st.U * st.V) % m
        V1  == (st.V * st.V - 2 * st.Qk) % m
        Qk1 == (st.Qk * st.Qk) % m
    IN  IF bit = 1
        THEN [U  |-> ((P * U1 + V1) \div 2) % m,
              V  |-> ((d * U1 + P * V1) \div 2) % m,
              Qk |-> (Qk1 * Q) % m]
        ELSE [U |-> U1, V |-> V1, Qk |-> Qk1]

RECURSIVE LadderLoop(_, _, _, _, _, _, _)
LadderLoop(st, bits, i, m, d, P, Q) ==
    IF i > Len(bits) THEN st
    ELSE LadderLoop(LadderStep(st, bits[i], m, d, P, Q), bits, i + 1, m, d, P, Q)

\* line 157
lucas_P == 1

\* line 158: Q = (1 - D) // 4
lucas_Q(d) == (1 - d) \div 4

\* lines 157-173: the value of U when the loop ends
lucas_sequence_U(m, d) ==
    LET P == lucas_P
        Q == lucas_Q(d)
        k == m + 1
    IN  LadderLoop([U |-> 0, V |-> 2, Qk |-> 1], BinDigits(k), 1, m, d, P, Q).U

lucas_sequence_test(m, d) == lucas_sequence_U(m, d) = 0

\* LucasPrimality.test with what it computed on the way
LucasRun(x) ==
    IF x <= 1 THEN [ret |-> FALSE, found |-> FALSE, D |-> 0, ran |-> FALSE, U |-> 0]
    ELSE IF x = 2 THEN [ret |-> TRUE, found |-> FALSE, D |-> 0, ran |-> FALSE, U |-> 0]
    ELSE IF x % 2 = 0 THEN [ret |-> FALSE, found |-> FALSE, D |-> 0, ran |-> FALSE, U |-> 0]
    ELSE LET fd == find_D(x)
         IN  IF ~fd.found
             THEN [ret |-> FALSE, found |-> FALSE, D |-> 0, ran |-> FALSE, U |-> 0]
             ELSE [ret |-> lucas_sequence_test(x, fd.D), found |-> TRUE,
                   D |-> fd.D, ran |-> TRUE, U |-> lucas_sequence_U(x, fd.D)]

LucasPrimality_test(x) == LucasRun(x).ret

(***************************************************************************)
(* cpu_algorithms.py: BPSW                                                 *)
(***************************************************************************)
\* BPSW.test running the Lucas test first and the Miller-Rabin test after it
BPSW_run_lucas_first(x, draws) ==
    IF x <= 1 THEN [ret |-> FALSE, stage |-> "none", used |-> <<>>]
    ELSE IF x = 2 THEN [ret |-> TRUE, stage |-> "none", used |-> <<>>]
    ELSE IF x % 2 = 0 THEN [ret |-> FALSE, stage |-> "none", used |-> <<>>]
    ELSE IF ~LucasPrimality_test(x)
         THEN [ret |-> FALSE, stage |-> "none", used |-> <<"lucas">>]
         ELSE [ret |-> MillerRabin_test(x, 1, TRUE, draws),
               stage |-> IF MillerRabin_test(x, 1, TRUE, draws)
                         THEN "True" ELSE "False",
               used |-> <<"lucas", "miller-rabin">>]

\* BPSW.test with the testers it invoked, in order, and the outcome of its
\* Miller-Rabin stage
BPSW_run(x, draws) ==
    IF x <= 1 THEN [ret |-> FALSE, stage |-> "none", used |-> <<>>]
    ELSE IF x = 2 THEN [ret |-> TRUE, stage |-> "none", used |-> <<>>]
    ELSE IF x % 2 = 0 THEN [ret |-> FALSE, stage |-> "none", used |-> <<>>]
    ELSE IF ~MillerRabin_test(x, 1, TRUE, draws)
         THEN [ret |-> FALSE, stage |-> "False", used |-> <<"miller-rabin">>]
         ELSE [ret |-> LucasPrimality_test(x), stage |-> "True",
               used |-> <<"miller-rabin", "lucas">>]

BPSW_test(x, draws) ==
    IF x <= 1 THEN FALSE
    ELSE IF x = 2 THEN TRUE
    ELSE IF x % 2 = 0 THEN FALSE
    ELSE IF ~MillerRabin_test(x, 1, TRUE, draws) THEN FALSE
    ELSE LucasPrimality_test(x)

(***************************************************************************)
(* cpu_algorithms.py: is_prime_cpu                                         *)
(***************************************************************************)
Bool(b) == IF b THEN "True" ELSE "False"

\* the dispatch deriving a missing exponent from a Mersenne-form n
Dispatch_derive_p(x, algorithm, kwHasP, kwP, r, kwDet, draws) ==
    IF algorithm = "miller-rabin"
    THEN [ret |-> Bool(MillerRabin_test(x, r, FALSE, draws)), err |-> "",
          used |-> <<"miller-rabin">>, p |-> kwP, det |-> FALSE]
    ELSE IF algorithm = "lucas-lehmer"
    THEN IF ~kwHasP /\ ~(x > 3 /\ bit_count(x + 1) = 1)
         THEN [ret |-> "ValueError", err |-> "requires-p",
               used |-> <<>>, p |-> kwP, det |-> FALSE]
         ELSE LET e == IF kwHasP THEN kwP ELSE bit_length(x + 1) - 1
              IN  [ret |-> Bool(LucasLehmer_test(e, TRUE)), err |-> "",
                   used |-> <<"lucas-lehmer">>, p |-> e, det |-> FALSE]
    ELSE IF algorithm = "bpsw"
    THEN [ret |-> Bool(BPSW_test(x, draws)), err |-> "",
          used |-> <<"bpsw">>, p |-> kwP, det |-> TRUE]
    ELSE [ret |-> "ValueError", err |-> "unknown-algorithm",
          used |-> <<>>, p |-> kwP, det |-> FALSE]

\* the dispatch answering False when n is not 2^p - 1
Dispatch_checks_n(x, algorithm, kwHasP, kwP, r, kwDet, draws) ==
    IF algorithm = "miller-rabin"
    THEN [ret |-> Bool(MillerRabin_test(x, r, FALSE, draws)), err |-> "",
          used |-> <<"miller-rabin">>, p |-> kwP, det |-> FALSE]
    ELSE IF algorithm = "lucas-lehmer"
    THEN IF ~kwHasP
         THEN [ret |-> "ValueError", err |-> "requires-p",
               used |-> <<>>, p |-> kwP, det |-> FALSE]
         ELSE IF kwP < 1 \/ x # Pow2(kwP) - 1
         THEN [ret |-> "False", err |-> "",
               used |-> <<>>, p |-> kwP, det |-> FALSE]
         ELSE [ret |-> Bool(LucasLehmer_test(kwP, TRUE)), err |-> "",
               used |-> <<"lucas-lehmer">>, p |-> kwP, det |-> FALSE]
    ELSE IF algorithm = "bpsw"
    THEN [ret |-> Bool(BPSW_test(x, draws)), err |-> "",
          used |-> <<"bpsw">>, p |-> kwP, det |-> TRUE]
    ELSE [ret |-> "ValueError", err |-> "unknown-algorithm",
          used |-> <<>>, p |-> kwP, det |-> FALSE]

\* lines 241-257: the dispatch on the resolved algorithm; det is the mode
\* MillerRabin.test is called with (kwargs['use_deterministic'] is not read)
Dispatch(x, algorithm, kwHasP, kwP, r, kwDet, draws) ==
    IF algorithm = "miller-rabin"
    THEN [ret |-> Bool(MillerRabin_test(x, r, FALSE, draws)), err |-> "",
          used |-> <<"miller-rabin">>, p |-> kwP, det |-> FALSE]
    ELSE IF algorithm = "lucas-lehmer"
    THEN IF ~kwHasP
         THEN [ret |-> "ValueError", err |-> "requires-p",
               used |-> <<>>, p |-> kwP, det |-> FALSE]
         ELSE [ret |-> Bool(LucasLehmer_test(kwP, TRUE)), err |-> "",
               used |-> <<"lucas-lehmer">>, p |-> kwP, det |-> FALSE]
    ELSE IF algorithm = "bpsw"
    THEN [ret |-> Bool(BPSW_test(x, draws)), err |-> "",
          used |-> <<"bpsw">>, p |-> kwP, det |-> TRUE]
    ELSE [ret |-> "ValueError", err |-> "unknown-algorithm",
          used |-> <<>>, p |-> kwP, det |-> FALSE]

\* is_prime_cpu deriving the exponent one too large
is_prime_cpu_off_by_one(x, algorithm, kwHasP, kwP, r, kwDet, draws) ==
    IF algorithm = "auto"
    THEN IF x > 3 /\ bit_count(x + 1) = 1
         THEN LET e == bit_length(x + 1)
              IN  IF is_prime_small(e)
                  THEN Dispatch(x, "lucas-lehmer", TRUE, e, r, kwDet, draws)
                  ELSE Dispatch(x, "auto", kwHasP, kwP, r, kwDet, draws)
         ELSE Dispatch(x, "bpsw", kwHasP, kwP, r, kwDet, draws)
    ELSE Dispatch(x, algorithm, kwHasP, kwP, r, kwDet, draws)

is_prime_cpu(x, algorithm, kwHasP, kwP, r, kwDet, draws) ==
    IF algorithm = "auto"
    THEN IF x > 3 /\ bit_count(x + 1) = 1
         THEN LET e == bit_length(x + 1) - 1
              IN  IF is_prime_small(e)
                  THEN Dispatch(x, "lucas-lehmer", TRUE, e, r, kwDet, draws)
                  ELSE Dispatch(x, "auto", kwHasP, kwP, r, kwDet, draws)
         ELSE Dispatch(x, "bpsw", kwHasP, kwP, r, kwDet, draws)
    ELSE Dispatch(x, algorithm, kwHasP, kwP, r, kwDet, draws)

(***************************************************************************)
(* Integers beyond the machine word: n >= 2**64 is held as three limbs of  *)
(* 28 bits, least significant first, and the same Miller-Rabin code is     *)
(* computed on that representation.                                        *)
(***************************************************************************)
WB == 268435456

\* bits an integer of three limbs has
WBits == 84

WZero == <<0, 0, 0>>

WOne == <<1, 0, 0>>

WFromInt(x) == <<x % WB, (x \div WB) % WB, 0>>

WIsZero(u) == u[1] = 0 /\ u[2] = 0 /\ u[3] = 0

WOdd(u) == u[1] % 2 = 1

WLess(u, v) ==
    \/ u[3] < v[3]
    \/ u[3] = v[3] /\ u[2] < v[2]
    \/ u[3] = v[3] /\ u[2] = v[2] /\ u[1] < v[1]

WAdd(u, v) ==
    LET s0 == u[1] + v[1]
        s1 == u[2] + v[2] + (s0 \div WB)
        s2 == u[3] + v[3] + (s1 \div WB)
    IN  <<s0 % WB, s1 % WB, s2>>

\* u - v for u >= v
WSub(u, v) ==
    LET d0 == u[1] - v[1]
        d1 == u[2] - v[2] + (d0 \div WB)
        d2 == u[3] - v[3] + (d1 \div WB)
    IN  <<d0 % WB, d1 % WB, d2>>

WHalf(u) ==
    <<(u[1] \div 2) + (u[2] % 2) * (WB \div 2),
      (u[2] \div 2) + (u[3] % 2) * (WB \div 2),
      u[3] \div 2>>

WAddMod(u, v, m) ==
    LET s == WAdd(u, v)
    IN  IF WLess(s, m) THEN s ELSE WSub(s, m)

\* one step of double-and-add on (acc, u, v): acc + u * v is kept mod m
WMulStep(st, m) ==
    [acc |-> IF WOdd(st.v) THEN WAddMod(st.acc, st.u, m) ELSE st.acc,
     u   |-> WAddMod(st.u, st.u, m),
     v   |-> WHalf(st.v)]

\* k steps from st, halving k (a step with v = 0 changes nothing of acc)
RECURSIVE WMulLoop(_, _, _)
WMulLoop(st, m, k) ==
    IF WIsZero(st.v) THEN st
    ELSE IF k <= 1 THEN WMulStep(st, m)
    ELSE WMulLoop(WMulLoop(st, m, k \div 2), m, k - (k \div 2))

\* u * v mod m for u < m
WMulMod(u, v, m) == WMulLoop([acc |-> WZero, u |-> u, v |-> v], m, WBits).acc

\* one step of square-and-multiply, from the low bit of the exponent
WExpStep(st, m) ==
    [res |-> IF WOdd(st.e) THEN WMulMod(st.res, st.b, m) ELSE st.res,
     b   |-> IF WIsZero(st.e) THEN st.b ELSE WMulMod(st.b, st.b, m),
     e   |-> WHalf(st.e)]

RECURSIVE WExpLoop(_, _, _)
WExpLoop(st, m, k) ==
    IF WIsZero(st.e) THEN st
    ELSE IF k <= 1 THEN WExpStep(st, m)
    ELSE WExpLoop(WExpLoop(st, m, k \div 2), m, k - (k \div 2))

\* mod_exp on wide operands (gmpy2.powmod) for base < mod
mod_exp_wide(base, exp, mod) ==
    WExpLoop([res |-> WOne, b |-> base, e |-> exp], mod, WBits).res

RECURSIVE WDecomposeLoop(_, _)
WDecomposeLoop(s, d) ==
    IF ~WOdd(d) THEN WDecomposeLoop(s + 1, WHalf(d)) ELSE <<s, d>>

decompose_n_minus_1_wide(x) == WDecomposeLoop(0, WSub(x, WOne))

RECURSIVE WSquareLoop(_, _, _)
WSquareLoop(x, m, left) ==
    IF left <= 0 THEN FALSE
    ELSE LET y == WMulMod(x, x, m)
         IN  IF y = WSub(m, WOne) THEN TRUE
             ELSE IF y = WOne THEN FALSE
             ELSE WSquareLoop(y, m, left - 1)

\* _witness_test for a base b (a machine integer) and wide n
witness_test_wide(b, m, s, d) ==
    LET x == mod_exp_wide(WFromInt(b), d, m)
    IN  IF x = WOne \/ x = WSub(m, WOne) THEN TRUE
        ELSE WSquareLoop(x, m, s - 1)

\* 2**64 and 3317044064679887385961981 in limbs
TwoTo64W == <<0, 0, 256>>

DetThresholdW == <<68199933, 182213410, 46033233>>

\* 318665857834031151167461, composite, passes every deterministic base
Psi12W == <<210089957, 42041247, 4422377>>

\* the witness choice ignoring use_deterministic
MillerRabin_witnesses_wide_random(nw, useDet, draws) == draws

\* the witness choice applying the fixed list whatever the magnitude of n
MillerRabin_witnesses_wide_fixed(nw, useDet, draws) ==
    IF useDet
    THEN LET Below(b) == WLess(WFromInt(b), nw)
         IN  SelectSeq(deterministic_bases, Below)
    ELSE draws

\* lines 48-51 for n >= 2**64: the list named witnesses
MillerRabin_witnesses_wide(nw, useDet, draws) ==
    IF useDet /\ WLess(nw, DetThresholdW)
    THEN LET Below(b) == WLess(WFromInt(b), nw)
         IN  SelectSeq(deterministic_bases, Below)
    ELSE draws

\* lines 54-58: index of the first witness that fails, 0 when all pass
RECURSIVE FirstFailureWide(_, _, _, _, _)
FirstFailureWide(ws, i, m, s, d) ==
    IF i > Len(ws) THEN 0
    ELSE IF witness_test_wide(ws[i], m, s, d)
         THEN FirstFailureWide(ws, i + 1, m, s, d)
         ELSE i

MillerRabinOutcome(ws, ff) ==
    [ret |-> ff = 0, wits |-> IF ff = 0 THEN ws ELSE SubSeq(ws, 1, ff),
     chosen |-> ws]

\* MillerRabin.test for n >= 2**64: its result and the witnesses it evaluated
MillerRabin_run_wide(nw, r, useDet, draws) ==
    IF ~WOdd(nw) THEN [ret |-> FALSE, wits |-> <<>>, chosen |-> <<>>]
    ELSE LET sd == decompose_n_minus_1_wide(nw)
             ws == MillerRabin_witnesses_wide(nw, useDet, draws)
         IN  MillerRabinOutcome(ws, FirstFailureWide(ws, 1, nw, sd[1], sd[2]))

\* u mod k for a machine integer k below 2**15
WModInt(u, k) ==
    ((((u[3] % k) * (WB % k) + (u[2] % k)) % k) * (WB % k) + (u[1] % k)) % k

\* u - v mod m for u, v < m
WSubMod(u, v, m) == IF WLess(u, v) THEN WSub(WAdd(u, m), v) ELSE WSub(u, v)

\* -u mod m for u < m
WNegMod(u, m) == IF WIsZero(u) THEN u ELSE WSub(m, u)

\* bits a limb has: WB = 2**WLimbBits
WLimbBits == 28

\* number of binary digits of u
WBitLength(u) ==
    IF u[3] > 0 THEN 2 * WLimbBits + bit_length(u[3])
    ELSE IF u[2] > 0 THEN WLimbBits + bit_length(u[2])
    ELSE bit_length(u[1])

\* binary digit i of u, digit 0 the least significant
WBit(u, i) == (u[(i \div WLimbBits) + 1] \div Pow2(i % WLimbBits)) % 2

\* jacobi_symbol(d, n) (gmpy2.jacobi) for an odd machine integer d and odd
\* wide n: (d/n) = (-1/n) (|d|/n), and (|d|/n) = (n mod |d| / |d|) with the
\* sign of the reciprocity law
jacobi_symbol_wide(d, nw) ==
    LET m     == abs(d)
        nmod4 == nw[1] % 4
        minus == IF d < 0 /\ nmod4 = 3 THEN -1 ELSE 1
        recip == IF m % 4 = 3 /\ nmod4 = 3 THEN -1 ELSE 1
    IN  minus * recip * jacobi_symbol(WModInt(nw, m), m)

\* lines 143-153 for wide n
RECURSIVE FindDLoopWide(_, _)
FindDLoopWide(d, nw) ==
    IF jacobi_symbol_wide(d, nw) = -1 THEN [found |-> TRUE, D |-> d]
    ELSE LET next == IF d > 0 THEN -d - 2 ELSE -d + 2
         IN  IF WLess(nw, WFromInt(abs(next))) THEN NoD
             ELSE FindDLoopWide(next, nw)

find_D_wide(nw) == FindDLoopWide(5, nw)

\* lines 167-173 for wide n: one iteration of the ladder on (U, V, Qk) for
\* the binary digit i of k.  (P*U + V) // 2 is below n; (D*U + P*V) // 2 % n
\* is (D*U + P*V) mod 2n, halved; Qk * Q % n for negative Q is -(Qk * |Q|)
\* mod n.
WLadderStep(st, k, nw, d) ==
    LET U1   == WMulMod(st.U, st.V, nw)
        V1   == WSubMod(WMulMod(st.V, st.V, nw), WAddMod(st.Qk, st.Qk, nw), nw)
        Qk1  == WMulMod(st.Qk, st.Qk, nw)
        n2   == WAdd(nw, nw)
        dU   == WMulMod(U1, WFromInt(abs(d)), n2)
        dUV  == IF d >= 0 THEN WAddMod(dU, V1, n2) ELSE WSubMod(V1, dU, n2)
        Q    == lucas_Q(d)
        QkQ  == WMulMod(Qk1, WFromInt(abs(Q)), nw)
    IN  IF WBit(k, st.i) = 1
        THEN [U  |-> WHalf(WAdd(U1, V1)),
              V  |-> WHalf(dUV),
              Qk |-> IF Q >= 0 THEN QkQ ELSE WNegMod(QkQ, nw),
              i  |-> st.i - 1]
        ELSE [U |-> U1, V |-> V1, Qk |-> Qk1, i |-> st.i - 1]

\* cnt iterations from st, halving cnt (none is left when i is below 0)
RECURSIVE WLadderLoop(_, _, _, _, _)
WLadderLoop(st, k, nw, d, cnt) ==
    IF st.i < 0 THEN st
    ELSE IF cnt <= 1 THEN WLadderStep(st, k, nw, d)
    ELSE WLadderLoop(WLadderLoop(st, k, nw, d, cnt \div 2), k, nw, d,
                     cnt - (cnt \div 2))

\* lines 157-175 for wide n: the value of U when the loop ends
lucas_sequence_U_wide(nw, d) ==
    LET k == WAdd(nw, WOne)
    IN  WLadderLoop([U |-> WZero, V |-> <<2, 0, 0>>, Qk |-> WOne,
                     i |-> WBitLength(k) - 1], k, nw, d, WBits).U

\* LucasPrimality.test for odd n >= 2**64
LucasPrimality_test_wide(nw) ==
    LET fd == find_D_wide(nw)
    IN  IF ~fd.found THEN FALSE
        ELSE WIsZero(lucas_sequence_U_wide(nw, fd.D))

\* BPSW.test for n >= 2**64 (lines 196-211): its result, the outcome of its
\* Miller-Rabin stage and the witnesses that stage chose and evaluated
BPSW_stage_wide(nw, draws) ==
    IF ~WOdd(nw)
    THEN [ret |-> "False", stage |-> "none", wits |-> <<>>, chosen |-> <<>>]
    ELSE LET mr == MillerRabin_run_wide(nw, 1, TRUE, draws)
         IN  IF ~mr.ret
             THEN [ret |-> "False", stage |-> "False", wits |-> mr.wits,
                   chosen |-> mr.chosen]
             ELSE [ret |-> Bool(LucasPrimality_test_wide(nw)), stage |-> "True",
                   wits |-> mr.wits, chosen |-> mr.chosen]


(***************************************************************************)
(* Inputs a client may pass.                                               *)
(***************************************************************************)
Curated == {341, 561, 645, 1105, 1387, 1729, 1905, 2465, 2821, 6601, 8911}

Mersennes == {generate_mersenne_candidate(e) : e \in 1..MaxP}

Nums == ((-MinN)..MaxN) \cup Curated \cup Mersennes

Exponents == (-MinN)..MaxP

\* exponents LucasLehmer.test is run on iteration by iteration: the small ones,
\* a composite and the least prime above the threshold of the progress bar
\* (2^1009 - 1 is composite), and 1279 (2^1279 - 1 is prime)
LLExponents == Exponents \cup {ProgressFrom + 1, ProgressFrom + 9, 1279}

RoundsSet == (0..MaxRounds) \cup {DefaultRounds}

Algorithms == {"auto", "miller-rabin", "lucas-lehmer", "bpsw", "fermat"}

\* arguments of is_prime_small: across the trial-division limit
SmallNums == (-MinN)..(TrialLimit + MaxN)

\* candidates of 2**64 or more: 2**64 + 2, + 3, + 13 (prime), + 3423
\* (prime), Psi12W, the deterministic threshold and the threshold + 2
WideNums ==
    {<<2, 0, 256>>, <<3, 0, 256>>, <<13, 0, 256>>, <<3423, 0, 256>>,
     Psi12W, DetThresholdW, WAdd(DetThresholdW, <<2, 0, 0>>)}

RoundsWide == 1..MaxWideRounds

\* values random.randrange(2, n - 1) may return, followed for wide n
WideDraws == {2, 43}

\* what the next r calls of random.randrange return
MRDrawsWide(r) == [1..r -> WideDraws]

(***************************************************************************)
(* The state machine: a behaviour is one call made by a client of the      *)
(* library (op = "init" before it) and, for the generator, the iterations  *)
(* of its loop.                                                            *)
(***************************************************************************)
\* no concurrent invocations
ConcIdle == [active |-> FALSE, th |-> <<>>, mem |-> <<>>,
             reads |-> <<{}, {}>>, writes |-> <<{}, {}>>]

\* cli.py, generate: nothing is running
CliIdle ==
    [pc |-> "idle", bits |-> 0, count |-> 0, p |-> 0, mpbits |-> 0,
     primes |-> <<>>]

GenIdle ==
    /\ gpc' = "idle"
    /\ gbits' = 0
    /\ gcand' = 0
    /\ gret' = 0

NoKw ==
    /\ kwdet' = FALSE
    /\ err' = ""

NoDecomp ==
    /\ ds' = 0
    /\ dd' = 0

\* the call is the first of its kind and its candidate is a machine integer
NoWide ==
    /\ chosen' = <<>>
    /\ bign' = WZero
    /\ again' = FALSE
    /\ ret2' = "none"

NoLucas ==
    /\ probes' = <<>>
    /\ foundD' = FALSE
    /\ D' = 0
    /\ ranLadder' = FALSE
    /\ U' = 0

Init ==
    /\ op = "init"
    /\ n = 0
    /\ alg = ""
    /\ hasP = FALSE
    /\ p = 0
    /\ rounds = 0
    /\ det = FALSE
    /\ kwdet = FALSE
    /\ showp = FALSE
    /\ a = 0
    /\ ret = "none"
    /\ err = ""
    /\ used = <<>>
    /\ llp = 0
    /\ foundD = FALSE
    /\ D = 0
    /\ ranLadder = FALSE
    /\ U = 0
    /\ ds = 0
    /\ dd = 0
    /\ gpc = "idle"
    /\ gbits = 0
    /\ gcand = 0
    /\ gret = 0
    /\ bign = WZero
    /\ wits = <<>>
    /\ again = FALSE
    /\ ret2 = "none"
    /\ chosen = <<>>
    /\ stage = "none"
    /\ lls = <<>>
    /\ probes = <<>>
    /\ cli = CliIdle
    /\ conc = ConcIdle
    /\ ll = LLIdle

\* MillerRabin(rounds=r).test(x, use_deterministic=ud)
CallMillerRabin ==
    /\ op = "init"
    /\ conc' = ConcIdle
    /\ ll' = LLIdle
    /\ cli' = CliIdle
    /\ lls' = <<>>
    /\ stage' = "none"
    /\ \E x \in Nums, r \in RoundsSet, ud \in BOOLEAN :
         \E draws \in MRDraws(x, r, ud) :
            /\ op' = "miller-rabin"
            /\ n' = x
            /\ rounds' = r
            /\ det' = ud
            /\ ret' = Bool(MillerRabin_test(x, r, ud, draws))
            /\ wits' = MillerRabin_evaluated(x, r, ud, draws)
    /\ NoWide
    /\ alg' = ""
    /\ hasP' = FALSE
    /\ p' = 0
    /\ showp' = FALSE
    /\ a' = 0
    /\ used' = <<>>
    /\ llp' = 0
    /\ NoLucas
    /\ NoKw
    /\ NoDecomp
    /\ GenIdle

\* MillerRabin._witness_test(b, x, s, d) with (s, d) = decompose_n_minus_1(x)
CallWitnessTest ==
    /\ op = "init"
    /\ conc' = ConcIdle
    /\ ll' = LLIdle
    /\ cli' = CliIdle
    /\ lls' = <<>>
    /\ stage' = "none"
    /\ wits' = <<>>
    /\ NoWide
    /\ \E x \in 5..MaxN :
         /\ x % 2 = 1
         /\ \E b \in 2..(x - 2) :
              LET sd == decompose_n_minus_1(x)
              IN  /\ op' = "witness_test"
                  /\ n' = x
                  /\ a' = b
                  /\ ds' = sd[1]
                  /\ dd' = sd[2]
                  /\ ret' = Bool(witness_test(b, x, sd[1], sd[2]))
    /\ alg' = ""
    /\ hasP' = FALSE
    /\ p' = 0
    /\ rounds' = 0
    /\ det' = FALSE
    /\ showp' = FALSE
    /\ used' = <<>>
    /\ llp' = 0
    /\ NoLucas
    /\ NoKw
    /\ GenIdle

\* decompose_n_minus_1(x)
CallDecompose ==
    /\ op = "init"
    /\ conc' = ConcIdle
    /\ ll' = LLIdle
    /\ cli' = CliIdle
    /\ lls' = <<>>
    /\ stage' = "none"
    /\ wits' = <<>>
    /\ NoWide
    /\ \E x \in Nums :
         /\ x > 1
         /\ LET sd == decompose_n_minus_1(x)
            IN  /\ op' = "decompose"
                /\ n' = x
                /\ ds' = sd[1]
                /\ dd' = sd[2]
    /\ ret' = "none"
    /\ alg' = ""
    /\ hasP' = FALSE
    /\ p' = 0
    /\ rounds' = 0
    /\ det' = FALSE
    /\ showp' = FALSE
    /\ a' = 0
    /\ used' = <<>>
    /\ llp' = 0
    /\ NoLucas
    /\ NoKw
    /\ GenIdle

\* LucasLehmer().test(e, show_progress=sp)
CallLucasLehmer ==
    /\ op = "init"
    /\ conc' = ConcIdle
    /\ ll' = LLIdle
    /\ cli' = CliIdle
    /\ stage' = "none"
    /\ wits' = <<>>
    /\ NoWide
    /\ \E e \in Exponents, sp \in BOOLEAN :
         /\ op' = "lucas-lehmer"
         /\ p' = e
         /\ llp' = e
         /\ showp' = sp
         /\ ret' = Bool(LucasLehmer_test(e, sp))
         /\ lls' = LucasLehmer_trace(e, sp)
    /\ n' = 0
    /\ alg' = ""
    /\ hasP' = TRUE
    /\ rounds' = 0
    /\ det' = FALSE
    /\ a' = 0
    /\ used' = <<>>
    /\ NoLucas
    /\ NoKw
    /\ NoDecomp
    /\ GenIdle

\* LucasPrimality().test(x)
CallLucasPrimality ==
    /\ op = "init"
    /\ conc' = ConcIdle
    /\ ll' = LLIdle
    /\ cli' = CliIdle
    /\ lls' = <<>>
    /\ stage' = "none"
    /\ wits' = <<>>
    /\ NoWide
    /\ \E x \in Nums :
         LET run == LucasRun(x)
         IN  /\ op' = "lucas"
             /\ n' = x
             /\ ret' = Bool(LucasPrimality_test(x))
             /\ foundD' = run.found
             /\ probes' = IF x > 2 /\ x % 2 = 1 THEN find_D_probes(x) ELSE <<>>
             /\ D' = run.D
             /\ ranLadder' = run.ran
             /\ U' = run.U
    /\ alg' = ""
    /\ hasP' = FALSE
    /\ p' = 0
    /\ rounds' = 0
    /\ det' = FALSE
    /\ showp' = FALSE
    /\ a' = 0
    /\ used' = <<>>
    /\ llp' = 0
    /\ NoKw
    /\ NoDecomp
    /\ GenIdle

\* BPSW().test(x)
CallBPSW ==
    /\ op = "init"
    /\ conc' = ConcIdle
    /\ ll' = LLIdle
    /\ cli' = CliIdle
    /\ lls' = <<>>
    /\ \E x \in Nums :
         \E draws \in MRDraws(x, 1, TRUE) :
            /\ op' = "bpsw"
            /\ n' = x
            /\ ret' = Bool(BPSW_test(x, draws))
            /\ stage' = BPSW_run(x, draws).stage
            /\ used' = BPSW_run(x, draws).used
            /\ wits' = IF x > 2 /\ x % 2 = 1
                        THEN MillerRabin_evaluated(x, 1, TRUE, draws)
                        ELSE <<>>
    /\ NoWide
    /\ alg' = ""
    /\ hasP' = FALSE
    /\ p' = 0
    /\ rounds' = 1
    /\ det' = TRUE
    /\ showp' = FALSE
    /\ a' = 0
    /\ llp' = 0
    /\ NoLucas
    /\ NoKw
    /\ NoDecomp
    /\ GenIdle

\* is_prime_cpu(x, algorithm=al, rounds=r [, p=e])
CallIsPrimeCpu ==
    /\ op = "init"
    /\ conc' = ConcIdle
    /\ ll' = LLIdle
    /\ cli' = CliIdle
    /\ lls' = <<>>
    /\ stage' = "none"
    /\ wits' = <<>>
    /\ NoWide
    /\ \E x \in Nums, al \in Algorithms, r \in RoundsSet, hp \in BOOLEAN :
         \E e \in (IF hp THEN Exponents ELSE {0}),
            kd \in (IF al = "miller-rabin" THEN BOOLEAN ELSE {FALSE}) :
            \E draws \in MRDraws(x, r, FALSE) \cup MRDraws(x, 1, TRUE) :
               LET out == is_prime_cpu(x, al, hp, e, r, kd, draws)
               IN  /\ op' = "is_prime_cpu"
                   /\ kwdet' = kd
                   /\ det' = out.det
                   /\ err' = out.err
                   /\ n' = x
                   /\ alg' = al
                   /\ hasP' = hp
                   /\ p' = e
                   /\ rounds' = r
                   /\ ret' = out.ret
                   /\ used' = out.used
                   /\ llp' = IF out.used = <<"lucas-lehmer">> THEN out.p ELSE 0
    /\ showp' = TRUE
    /\ a' = 0
    /\ NoLucas
    /\ NoDecomp
    /\ GenIdle

\* is_prime_small(x)
CallIsPrimeSmall ==
    /\ op = "init"
    /\ conc' = ConcIdle
    /\ ll' = LLIdle
    /\ cli' = CliIdle
    /\ lls' = <<>>
    /\ stage' = "none"
    /\ \E x \in SmallNums :
         /\ op' = "is_prime_small"
         /\ n' = x
         /\ ret' = Bool(is_prime_small(x))
    /\ alg' = ""
    /\ hasP' = FALSE
    /\ p' = 0
    /\ rounds' = 0
    /\ det' = FALSE
    /\ showp' = FALSE
    /\ a' = 0
    /\ used' = <<>>
    /\ llp' = 0
    /\ wits' = <<>>
    /\ NoWide
    /\ NoLucas
    /\ NoKw
    /\ NoDecomp
    /\ GenIdle

NoCall ==
    /\ n' = 0
    /\ alg' = ""
    /\ hasP' = FALSE
    /\ p' = 0
    /\ rounds' = 0
    /\ det' = FALSE
    /\ showp' = FALSE
    /\ a' = 0
    /\ used' = <<>>
    /\ llp' = 0
    /\ NoLucas
    /\ NoKw
    /\ NoDecomp
    /\ wits' = <<>>
    /\ NoWide

\* generate_random_probable_prime(bits) is entered
GenStart ==
    /\ op = "init"
    /\ conc' = ConcIdle
    /\ ll' = LLIdle
    /\ cli' = CliIdle
    /\ lls' = <<>>
    /\ stage' = "none"
    /\ \E bits \in 1..MaxBits :
         gbits' = bits
    /\ gpc' = "loop"
    /\ gcand' = 0
    /\ gret' = 0
    /\ op' = "generate"
    /\ ret' = "none"
    /\ NoCall

\* lines 21-27: one iteration of its loop
GenIterateWith(r) ==
    /\ gpc = "loop"
    /\ r \in getrandbits(gbits - 1)
    /\ LET c == gen_candidate(gbits, r)
       IN  /\ gcand' = c
           /\ IF is_probably_prime(c, 5)
              THEN gpc' = "done" /\ gret' = c
              ELSE gpc' = "loop" /\ gret' = 0
    /\ UNCHANGED <<op, n, alg, hasP, p, rounds, det, showp, a, ret, used, llp,
                   foundD, D, ranLadder, U, ds, dd, gbits, kwdet, err,
                   bign, wits, again, ret2,
                   chosen,
                   stage,
                   lls,
                   probes,
                   cli,
                   conc, ll>>

\* one iteration with any value random.getrandbits can yield
GenIterate == \E r \in getrandbits(MaxBits - 1) : GenIterateWith(r)

Next ==
    \/ CallMillerRabin
    \/ CallWitnessTest
    \/ CallDecompose
    \/ CallLucasLehmer
    \/ CallLucasPrimality
    \/ CallBPSW
    \/ CallIsPrimeCpu
    \/ CallIsPrimeSmall
    \/ GenStart
    \/ GenIterate

Spec == Init /\ [][Next]_vars

\* fair sampling: a value random.getrandbits can yield is not withheld for
\* ever from a loop that keeps asking for one
FairSampling ==
    \A r \in getrandbits(MaxBits - 1) : WF_vars(GenIterateWith(r))

SpecFair == Init /\ [][Next]_vars /\ FairSampling

TypeOK ==
    /\ ret \in {"True", "False", "ValueError", "none"}
    /\ gpc \in {"idle", "loop", "done"}
    /\ Len(used) <= 2
    /\ stage \in {"none", "True", "False"}

(***************************************************************************)
(* The same library called with candidates of 2**64 or more, and a call    *)
(* made a second time with the same arguments.                             *)
(***************************************************************************)
\* the arguments of a direct call with a wide candidate
WideCall ==
    /\ n' = 0
    /\ alg' = ""
    /\ hasP' = FALSE
    /\ p' = 0
    /\ showp' = FALSE
    /\ a' = 0
    /\ used' = <<>>
    /\ llp' = 0
    /\ again' = FALSE
    /\ ret2' = "none"
    /\ NoLucas
    /\ NoKw
    /\ NoDecomp
    /\ GenIdle

\* MillerRabin(rounds=r).test(nw, use_deterministic=ud) for nw >= 2**64
CallMillerRabinWide ==
    /\ op = "init"
    /\ conc' = ConcIdle
    /\ ll' = LLIdle
    /\ cli' = CliIdle
    /\ lls' = <<>>
    /\ stage' = "none"
    /\ \E nw \in WideNums, r \in RoundsWide, ud \in BOOLEAN :
         \E draws \in MRDrawsWide(r) :
            LET out == MillerRabin_run_wide(nw, r, ud, draws)
            IN  /\ op' = "miller-rabin-wide"
                /\ bign' = nw
                /\ rounds' = r
                /\ det' = ud
                /\ ret' = Bool(out.ret)
                /\ wits' = out.wits
                /\ chosen' = out.chosen
    /\ WideCall

\* BPSW().test(nw) for nw >= 2**64, up to the end of its Miller-Rabin stage
CallBPSWStageWide ==
    /\ op = "init"
    /\ conc' = ConcIdle
    /\ ll' = LLIdle
    /\ cli' = CliIdle
    /\ lls' = <<>>
    /\ \E nw \in WideNums :
         \E draws \in MRDrawsWide(1) :
            LET out == BPSW_stage_wide(nw, draws)
            IN  /\ op' = "bpsw-stage-wide"
                /\ bign' = nw
                /\ ret' = out.ret
                /\ stage' = out.stage
                /\ wits' = out.wits
                /\ chosen' = out.chosen
    /\ rounds' = 1
    /\ det' = TRUE
    /\ WideCall

\* a tester called a second time with the same arguments; the random
\* source has moved on, so the draws are fresh
Repeat ==
    /\ op \in {"miller-rabin", "lucas-lehmer", "lucas", "bpsw"}
    /\ ~again
    /\ \E draws \in MRDraws(n, rounds, det) :
         ret2' = CASE op = "miller-rabin" ->
                        Bool(MillerRabin_test(n, rounds, det, draws))
                   [] op = "lucas-lehmer" -> Bool(LucasLehmer_test(p, showp))
                   [] op = "lucas" -> Bool(LucasPrimality_test(n))
                   [] OTHER -> Bool(BPSW_test(n, draws))
    /\ again' = TRUE
    /\ UNCHANGED <<op, n, alg, hasP, p, rounds, det, kwdet, showp, a, ret, err,
                   used, llp, foundD, D, ranLadder, U, ds, dd, gpc, gbits,
                   gcand, gret, bign, wits,
                   chosen,
                   stage,
                   lls,
                   probes,
                   cli,
                   conc, ll>>

\* the same for a wide candidate
RepeatWide ==
    /\ op \in {"miller-rabin-wide", "bpsw-stage-wide"}
    /\ ~again
    /\ \E draws \in MRDrawsWide(rounds) :
         ret2' = IF op = "miller-rabin-wide"
                 THEN Bool(MillerRabin_run_wide(bign, rounds, det, draws).ret)
                 ELSE BPSW_stage_wide(bign, draws).ret
    /\ again' = TRUE
    /\ UNCHANGED <<op, n, alg, hasP, p, rounds, det, kwdet, showp, a, ret, err,
                   used, llp, foundD, D, ranLadder, U, ds, dd, gpc, gbits,
                   gcand, gret, bign, wits,
                   chosen,
                   stage,
                   lls,
                   probes,
                   cli,
                   conc, ll>>

NextWide ==
    \/ Next
    \/ CallMillerRabinWide
    \/ CallBPSWStageWide
    \/ Repeat
    \/ RepeatWide

SpecWide == Init /\ [][NextWide]_vars


(***************************************************************************)
(* cli.py: the generate command with --mersenne.  2^p - 1 for an exponent  *)
(* of 7 bits or more is held as its binary digits, most significant first. *)
(***************************************************************************)
\* utils.py, generate_mersenne_candidate: mpz(2)**e - 1 is, in binary, a 1
\* followed by e zeros, less one: e digits 1 (no digit for e = 0)
generate_mersenne_candidate_bin(e) == [i \in 1..e |-> 1]

\* the position of the first digit 1 from position j on, 0 when there is none
RECURSIVE BinFirstOne(_, _)
BinFirstOne(b, j) ==
    IF j > Len(b) THEN 0
    ELSE IF b[j] = 1 THEN j
    ELSE BinFirstOne(b, j + 1)

\* int.bit_length on binary digits: the digits from the first 1 on
BinBitLength(b) ==
    LET f == BinFirstOne(b, 1)
    IN  IF f = 0 THEN 0 ELSE Len(b) - f + 1

\* line 116: Mp.bit_length() >= bits
cli_accepts(e, bits) ==
    BinBitLength(generate_mersenne_candidate_bin(e)) >= bits

Max(x, y) == IF x >= y THEN x ELSE y

\* line 114: the bit length asked of generate_random_probable_prime
cli_pbits(bits) == Max(MinPBits, bits \div BitsPerPBit)

\* values of --bits: below, at and above the largest exponent of 7 bits, and
\* the default
CliBits == {1, 10, 127, 128, DefaultBits}

\* the longest exponent these values ask for
MaxPBits ==
    CHOOSE m \in {cli_pbits(b) : b \in CliBits} :
        \A b \in CliBits : m >= cli_pbits(b)

\* generate --mersenne --bits bits --count count is entered (lines 108-113)
CliStart ==
    /\ op = "init"
    /\ conc' = ConcIdle
    /\ ll' = LLIdle
    /\ lls' = <<>>
    /\ stage' = "none"
    /\ \E bits \in CliBits, count \in 1..MaxCount :
         cli' = [pc |-> "loop", bits |-> bits, count |-> count,
                 p |-> 2, mpbits |-> 0, primes |-> <<>>]
    /\ op' = "cli-generate"
    /\ ret' = "none"
    /\ GenIdle
    /\ NoCall

\* lines 113-118 with utils.py lines 21-27: one draw of
\* generate_random_probable_prime; a candidate that fails changes nothing the
\* command keeps, one that passes becomes p and the pair (p, 2^p - 1) is
\* appended when 2^p - 1 is long enough
CliDrawWith(r) ==
    /\ cli.pc = "loop"
    /\ r \in getrandbits(cli_pbits(cli.bits) - 1)
    /\ LET c == gen_candidate(cli_pbits(cli.bits), r)
       IN  IF ~is_probably_prime(c, 5)
           THEN cli' = cli
           ELSE LET len    == BinBitLength(generate_mersenne_candidate_bin(c))
                    primes == IF cli_accepts(c, cli.bits)
                              THEN Append(cli.primes, <<c, len>>)
                              ELSE cli.primes
                IN  cli' = [cli EXCEPT !.p = c, !.mpbits = len,
                                       !.primes = primes,
                                       !.pc = IF Len(primes) < cli.count
                                              THEN "loop" ELSE "done"]
    /\ UNCHANGED <<op, n, alg, hasP, p, rounds, det, kwdet, showp, a, ret,
                   err, used, llp, foundD, D, ranLadder, U, ds, dd, gpc,
                   gbits, gcand, gret, bign, wits, again, ret2, chosen,
                   stage, lls, probes,
                   conc, ll>>

CliDraw == \E r \in getrandbits(MaxPBits - 1) : CliDrawWith(r)

NextCli ==
    \/ Next
    \/ CliStart
    \/ CliDraw

\* fair sampling of the exponents
FairCliSampling ==
    \A r \in getrandbits(MaxPBits - 1) : WF_vars(CliDrawWith(r))

SpecCli == Init /\ [][NextCli]_vars /\ FairCliSampling


(***************************************************************************)
(* Two invocations at once.  Each of two threads runs MillerRabin.test     *)
(* (on one MillerRabin instance) or generate_random_probable_prime, one    *)
(* statement at a time.  Memory is a map from locations to values: a       *)
(* location is <<t, name>> for a local of the invocation of thread t, and  *)
(* <<0, name>> for an attribute of the instance or of a module.  The       *)
(* module-level generator of `random` is the location <<0, "random">>,     *)
(* holding the number of calls made to it; the values it yields are left   *)
(* open.  reads[t] and writes[t] log the locations thread t touched: a     *)
(* call logs the generator when it advances its state, which               *)
(* random.getrandbits(0) does not (it returns 0 at once).                  *)
(***************************************************************************)
Threads == {1, 2}

Other(t) == 3 - t

LocalLoc(t, name) == <<t, name>>

SharedLoc(name) == <<0, name>>

RandomLoc == SharedLoc("random")

LocalNames == {"n", "use_deterministic", "bits", "s", "d", "witnesses", "i"}

SharedNames == {"random", "rounds", "deterministic_bases"}

Locs == (Threads \X LocalNames) \cup ({0} \X SharedNames)

\* the witness list stored in the instance's list of bases
WitnessesLoc_on_instance(t) == SharedLoc("deterministic_bases")

\* line 49, line 51: `witnesses` is a local of test
WitnessesLoc(t) == LocalLoc(t, "witnesses")

\* the invocations: MillerRabin.test of 2**64 + 3 in either mode and of
\* Psi12W with random witnesses, and the generator
ConcCalls ==
    [kind : {"mr"}, n : {<<3, 0, 256>>}, det : BOOLEAN, bits : {0}]
        \cup [kind : {"mr"}, n : {Psi12W}, det : {FALSE}, bits : {0}]
        \cup [kind : {"gen"}, n : {WZero}, det : {FALSE}, bits : 1..ConcBits]

\* the locals of an invocation when it is entered
ConcLocal(call, name) ==
    IF name = "n" THEN (IF call.kind = "mr" THEN call.n ELSE 0)
    ELSE IF name = "use_deterministic" THEN call.det
    ELSE IF name = "bits" THEN call.bits
    ELSE IF name = "d" THEN WZero
    ELSE IF name = "witnesses" THEN <<>>
    ELSE 0

ConcMemory(c1, c2, r) ==
    [l \in Locs |->
        IF l[1] = 1 THEN ConcLocal(c1, l[2])
        ELSE IF l[1] = 2 THEN ConcLocal(c2, l[2])
        ELSE IF l[2] = "rounds" THEN r
        ELSE IF l[2] = "deterministic_bases" THEN deterministic_bases
        ELSE 0]

\* thread t reads the locations rd and assigns the values of wr
Access(c, t, rd, wr) ==
    [c EXCEPT !.mem = [l \in Locs |-> IF l \in DOMAIN wr THEN wr[l] ELSE @[l]],
              !.reads[t] = @ \cup rd,
              !.writes[t] = @ \cup DOMAIN wr]

Goto(c, t, pc) == [c EXCEPT !.th[t].pc = pc]

Return(c, t, v) == [c EXCEPT !.th[t].pc = "done", !.th[t].ret = v]

\* the draws are bounded: the shared generator has yielded fewer than
\* MaxConcDraws values
DrawsLeft == conc.active /\ conc.mem[RandomLoc] < MaxConcDraws

\* a call of the module-level generator that leaves its state untouched
CountCall(c) == [c EXCEPT !.mem[RandomLoc] = @ + 1]

OthersUnchanged ==
    UNCHANGED <<op, n, alg, hasP, p, rounds, det, kwdet, showp, a, ret,
                err, used, llp, foundD, D, ranLadder, U, ds, dd, gpc,
                gbits, gcand, gret, bign, wits, again, ret2, chosen,
                stage, lls, probes, cli, ll>>

\* two threads enter their invocations
ConcStart ==
    /\ op = "init"
    /\ ll' = LLIdle
    /\ lls' = <<>>
    /\ stage' = "none"
    /\ cli' = CliIdle
    /\ \E c1 \in ConcCalls, c2 \in ConcCalls, r \in RoundsWide :
         conc' = [active |-> TRUE,
                  th |-> << [kind |-> c1.kind, ret |-> "none",
                             pc |-> IF c1.kind = "mr" THEN "decompose" ELSE "draw"],
                            [kind |-> c2.kind, ret |-> "none",
                             pc |-> IF c2.kind = "mr" THEN "decompose" ELSE "draw"] >>,
                  mem |-> ConcMemory(c1, c2, r),
                  reads |-> <<{}, {}>>,
                  writes |-> <<{}, {}>>]
    /\ op' = "concurrent"
    /\ ret' = "none"
    /\ GenIdle
    /\ NoCall

\* cpu_algorithms.py line 45: s, d = decompose_n_minus_1(n)
MRDecompose(t) ==
    /\ conc.active
    /\ conc.th[t].pc = "decompose"
    /\ LET sd == decompose_n_minus_1_wide(conc.mem[LocalLoc(t, "n")])
       IN  conc' = Goto(Access(conc, t, {LocalLoc(t, "n")},
                               (LocalLoc(t, "s") :> sd[1])
                                   @@ (LocalLoc(t, "d") :> sd[2])),
                        t, "choose")
    /\ OthersUnchanged

\* lines 48-49: the fixed bases below n become the witness list
MRChooseFixed(t) ==
    /\ conc.active
    /\ conc.th[t].pc = "choose"
    /\ conc.mem[LocalLoc(t, "use_deterministic")]
    /\ WLess(conc.mem[LocalLoc(t, "n")], DetThresholdW)
    /\ LET Below(b) == WLess(WFromInt(b), conc.mem[LocalLoc(t, "n")])
           ws == SelectSeq(conc.mem[SharedLoc("deterministic_bases")], Below)
       IN  conc' = Goto(Access(conc, t,
                               {LocalLoc(t, "use_deterministic"), LocalLoc(t, "n"),
                                SharedLoc("deterministic_bases")},
                               (WitnessesLoc(t) :> ws) @@ (LocalLoc(t, "i") :> 1)),
                        t, "test")
    /\ OthersUnchanged

\* lines 50-51: one call of random.randrange(2, n - 1), yielding v; the
\* list is complete after self.rounds calls
MRDraw(t, v) ==
    /\ DrawsLeft
    /\ conc.th[t].pc = "choose"
    /\ ~(conc.mem[LocalLoc(t, "use_deterministic")]
            /\ WLess(conc.mem[LocalLoc(t, "n")], DetThresholdW))
    /\ v \in WideDraws
    /\ LET ws == Append(conc.mem[WitnessesLoc(t)], v)
       IN  conc' = Goto(Access(conc, t,
                               {LocalLoc(t, "use_deterministic"), LocalLoc(t, "n"),
                                SharedLoc("rounds"), RandomLoc, WitnessesLoc(t)},
                               (WitnessesLoc(t) :> ws)
                                   @@ (RandomLoc :> conc.mem[RandomLoc] + 1)
                                   @@ (LocalLoc(t, "i") :> 1)),
                        t, IF Len(ws) >= conc.mem[SharedLoc("rounds")]
                           THEN "test" ELSE "choose")
    /\ OthersUnchanged

\* lines 54-58: one pass of `for a in witnesses`
MRWitness(t) ==
    /\ conc.active
    /\ conc.th[t].pc = "test"
    /\ LET ws == conc.mem[WitnessesLoc(t)]
           i  == conc.mem[LocalLoc(t, "i")]
           rd == {WitnessesLoc(t), LocalLoc(t, "i"), LocalLoc(t, "n"),
                  LocalLoc(t, "s"), LocalLoc(t, "d")}
       IN  IF i > Len(ws)
           THEN conc' = Return(Access(conc, t, {WitnessesLoc(t), LocalLoc(t, "i")},
                                      <<>>), t, "True")
           ELSE IF ~witness_test_wide(ws[i], conc.mem[LocalLoc(t, "n")],
                                      conc.mem[LocalLoc(t, "s")],
                                      conc.mem[LocalLoc(t, "d")])
           THEN conc' = Return(Access(conc, t, rd, <<>>), t, "False")
           ELSE conc' = Access(conc, t, rd, (LocalLoc(t, "i") :> i + 1))
    /\ OthersUnchanged

\* utils.py lines 22-24: one call of random.getrandbits(bits - 1), yielding
\* r, and the adjustment of an even n
ConcGenDraw(t, r) ==
    /\ DrawsLeft
    /\ conc.th[t].pc = "draw"
    /\ r \in getrandbits(conc.mem[LocalLoc(t, "bits")] - 1)
    /\ LET bits == conc.mem[LocalLoc(t, "bits")]
           c    == LocalLoc(t, "n") :> gen_candidate(bits, r)
       IN  conc' =
             Goto(IF bits - 1 > 0
                  THEN Access(conc, t,
                              {LocalLoc(t, "bits"), LocalLoc(t, "n"), RandomLoc},
                              c @@ (RandomLoc :> conc.mem[RandomLoc] + 1))
                  ELSE CountCall(Access(conc, t,
                                        {LocalLoc(t, "bits"), LocalLoc(t, "n")}, c)),
                  t, "check")
    /\ OthersUnchanged

\* utils.py lines 26-27
ConcGenCheck(t) ==
    /\ conc.active
    /\ conc.th[t].pc = "check"
    /\ LET c == conc.mem[LocalLoc(t, "n")]
       IN  IF is_probably_prime(c, 5)
           THEN conc' = Return(Access(conc, t, {LocalLoc(t, "n")}, <<>>), t, c)
           ELSE conc' = Goto(Access(conc, t, {LocalLoc(t, "n")}, <<>>), t, "draw")
    /\ OthersUnchanged

NextConc ==
    \/ ConcStart
    \/ \E t \in Threads : MRDecompose(t)
    \/ \E t \in Threads : MRChooseFixed(t)
    \/ \E t \in Threads, v \in WideDraws : MRDraw(t, v)
    \/ \E t \in Threads : MRWitness(t)
    \/ \E t \in Threads, r \in getrandbits(ConcBits - 1) : ConcGenDraw(t, r)
    \/ \E t \in Threads : ConcGenCheck(t)

SpecConc == Init /\ [][NextConc]_vars

(***************************************************************************)
(* LucasLehmer.test on an exponent of any size, one action per iteration   *)
(* of its loop.  The call is made twice on the same exponent, once with    *)
(* each value of show_progress, and the outcome of the first call is kept  *)
(* beside the second.                                                      *)
(***************************************************************************)
\* LucasLehmer().test(e, show_progress=sp): lines 91-102
LLStart ==
    /\ op = "init"
    /\ conc' = ConcIdle
    /\ cli' = CliIdle
    /\ lls' = <<>>
    /\ stage' = "none"
    /\ \E e \in LLExponents, sp \in BOOLEAN :
         ll' = LLEnter(e, sp, 1, LLIdle.first)
    /\ op' = "lucas-lehmer-run"
    /\ ret' = "none"
    /\ GenIdle
    /\ NoCall

\* lines 104-105: the iterator passes on an item and the body runs
LLIterate ==
    /\ ll.pc = "loop"
    /\ HasNext(ll.iterator)
    /\ ll' = [ll EXCEPT !.s = LucasLehmer_step(ll.s, ll.p),
                        !.iterator = Yield(ll.iterator)]
    /\ UNCHANGED <<op, n, alg, hasP, p, rounds, det, kwdet, showp, a, ret,
                   err, used, llp, foundD, D, ranLadder, U, ds, dd, gpc,
                   gbits, gcand, gret, bign, wits, again, ret2, chosen,
                   stage, lls, probes, cli, conc>>

\* lines 104 and 107: the iterator is exhausted, return s == 0
LLReturn ==
    /\ ll.pc = "loop"
    /\ ~HasNext(ll.iterator)
    /\ ll' = [ll EXCEPT !.pc = "done", !.ret = Bool(MpzIsInt(ll.s, 0))]
    /\ UNCHANGED <<op, n, alg, hasP, p, rounds, det, kwdet, showp, a, ret,
                   err, used, llp, foundD, D, ranLadder, U, ds, dd, gpc,
                   gbits, gcand, gret, bign, wits, again, ret2, chosen,
                   stage, lls, probes, cli, conc>>

\* the second call, LucasLehmer().test(e, show_progress=not sp): lines 91-102
LLAgain ==
    /\ ll.pc = "done"
    /\ ll.calls = 1
    /\ ll' = LLEnter(ll.p, ~ll.show_progress, 2,
                     [iterations |-> ll.iterator.next, ret |-> ll.ret])
    /\ UNCHANGED <<op, n, alg, hasP, p, rounds, det, kwdet, showp, a, ret,
                   err, used, llp, foundD, D, ranLadder, U, ds, dd, gpc,
                   gbits, gcand, gret, bign, wits, again, ret2, chosen,
                   stage, lls, probes, cli, conc>>

NextLucasLehmer ==
    \/ CallLucasLehmer
    \/ LLStart
    \/ LLIterate
    \/ LLReturn
    \/ LLAgain

SpecLucasLehmer == Init /\ [][NextLucasLehmer]_vars


(***************************************************************************)
(* Reference notions the properties are stated against.                    *)
(***************************************************************************)
IsPrimeRef(x) == x >= 2 /\ \A i \in 2..(x - 1) : x % i # 0

IsCompositeRef(x) == x >= 4 /\ \E i \in 2..(x - 1) : x % i = 0

IsSquareRef(x) == \E r \in 0..x : r * r = x

\* U_k mod m of the recurrence U_0 = 0, U_1 = 1, U_(j+1) = P*U_j - Q*U_(j-1)
RECURSIVE RefLucasLoop(_, _, _, _, _, _)
RefLucasLoop(u0, u1, left, P, Q, m) ==
    IF left = 0 THEN u0
    ELSE RefLucasLoop(u1, (P * u1 - Q * u0) % m, left - 1, P, Q, m)

RefLucasU(k, P, Q, m) == RefLucasLoop(0, 1 % m, k, P, Q, m)

MersenneForm(x) ==
    /\ x > 3
    /\ bit_count(x + 1) = 1
    /\ is_prime_small(bit_length(x + 1) - 1)

(***************************************************************************)
(* Properties.                                                             *)
(***************************************************************************)

\* C1: for every prime n, BPSW.test(n) returns True, and so does
\* is_prime_cpu(n, algorithm='bpsw').
C1_BPSWAcceptsPrimes ==
    (IsPrimeRef(n) /\ (op = "bpsw" \/ (op = "is_prime_cpu" /\ alg = "bpsw")))
        => ret = "True"

\* C2: for every prime n >= 2, LucasPrimality.test(n) returns True: a
\* discriminant D is found and the computed U is 0.
C2_LucasAcceptsPrimes ==
    (op = "lucas" /\ IsPrimeRef(n))
        => /\ ret = "True"
           /\ n > 2 => (foundD /\ ranLadder /\ U = 0)

\* C3: in auto mode, every n that is not a Mersenne form with an exponent
\* accepted by is_prime_small is dispatched to BPSW and the call returns
\* BPSW.test(n); every auto-mode call invokes exactly one tester.
C3_AutoFallsBackToBPSW ==
    (op = "is_prime_cpu" /\ alg = "auto")
        => /\ Len(used) = 1
           /\ ~MersenneForm(n)
                => (used = <<"bpsw">> /\ ret = Bool(BPSW_test(n, <<>>)))

\* C4: for every odd n >= 3 and every D accepted by _find_D, the U left by
\* the ladder equals the Lucas term U_(n+1) mod n for P = 1, Q = (1-D)/4.
C4_LadderMatchesRecurrence ==
    (op = "lucas" /\ ranLadder)
        => U = RefLucasU(n + 1, 1, (1 - D) \div 4, n)

\* C5: whenever the discriminant search is abandoned, n is a perfect
\* square; it is never abandoned for an odd n that is not a square.
C5_AbandonOnlyOnSquares ==
    (op = "lucas" /\ n >= 3 /\ n % 2 = 1 /\ ~foundD) => IsSquareRef(n)

\* C6: for every composite n >= 4, MillerRabin.test(n) returns False for
\* every rounds value and in both modes, and BPSW.test(n) returns False.
C6_CompositesRejected ==
    (IsCompositeRef(n) /\ op \in {"miller-rabin", "bpsw"}) => ret = "False"

C6_Witness ==
    /\ op = "miller-rabin"
    /\ n = 8911
    /\ det
    /\ rounds = DefaultRounds
    /\ ret = "False"

\* C7: for every prime n, MillerRabin.test(n) returns True in both modes and
\* for every rounds value, and for every odd prime n with n-1 = 2^s*d and
\* every base a in [2, n-2], _witness_test(a, n, s, d) returns True.
C7_PrimesPassMillerRabin ==
    (IsPrimeRef(n) /\ op \in {"miller-rabin", "witness_test"}) => ret = "True"

C7_Witness ==
    /\ op = "witness_test"
    /\ n = 13
    /\ a = 5
    /\ mod_exp(a, 3, n) \notin {1, n - 1}
    /\ ret = "True"

\* C8: LucasLehmer.test(p) returns True exactly when p >= 2 and 2^p - 1 is
\* prime; in particular it returns False for p <= 1 and for composite p.
C8_LucasLehmerExact ==
    op = "lucas-lehmer"
        => (ret = "True" <=> (p >= 2 /\ IsPrimeRef(Pow2(p) - 1)))

C8_Witness ==
    /\ op = "lucas-lehmer"
    /\ p = 13
    /\ ret = "True"

\* C9: in auto mode, for every n > 3 of the form 2^e - 1 whose exponent e
\* passes is_prime_small, is_prime_cpu dispatches to Lucas-Lehmer with
\* exactly that e and returns LucasLehmer.test(e); BPSW is not invoked.
C9_AutoMersenneUsesLucasLehmer ==
    \A e \in 2..(MaxP + 1) :
        (/\ op = "is_prime_cpu"
         /\ alg = "auto"
         /\ n > 3
         /\ n = generate_mersenne_candidate(e)
         /\ is_prime_small(e))
            => /\ used = <<"lucas-lehmer">>
               /\ llp = e
               /\ ret = Bool(LucasLehmer_test(e, TRUE))

C9_Witness ==
    /\ op = "is_prime_cpu"
    /\ alg = "auto"
    /\ n = 8191
    /\ used = <<"lucas-lehmer">>
    /\ llp = 13
    /\ ret = "True"

\* C10: for every bits >= 2, a value returned by
\* generate_random_probable_prime(bits) has bit length exactly bits and is
\* prime under an exact check.
C10_GeneratedPrimeHasRequestedLength ==
    (gpc = "done" /\ gbits >= 2)
        => /\ bit_length(gret) = gbits
           /\ IsPrimeRef(gret)

C10_Witness ==
    /\ gpc = "done"
    /\ gbits = MaxBits
    /\ gret = gcand
    /\ gret > Pow2(MaxBits - 1)


\* C11: for every n > 1, decompose_n_minus_1(n) returns (s, d) with s >= 0,
\* d odd and 2^s * d = n - 1 exactly.
C11_DecompositionExact ==
    op = "decompose"
        => /\ ds >= 0
           /\ dd % 2 = 1
           /\ Pow2(ds) * dd = n - 1

C11_Witness ==
    /\ op = "decompose"
    /\ n = 101
    /\ ds = 2
    /\ dd = 25

\* C12 as stated: decompose_n_minus_1(n) returns s = 0 only when n = 2, so
\* for every n > 2 the returned s is at least 1.
C12_ZeroOnlyForTwo ==
    (op = "decompose" /\ n > 2) => ds >= 1

\* C12 amended: s = 0 exactly when n is even (n = 2, 4, 6, ...); for every
\* odd n > 2 the returned s is at least 1.
C12_ZeroExactlyForEven ==
    op = "decompose" => (ds = 0 <=> n % 2 = 0)

C12_Witness ==
    /\ op = "decompose"
    /\ n = 4
    /\ ds = 0
    /\ dd = 3


KnownAlgorithms == {"auto", "miller-rabin", "lucas-lehmer", "bpsw"}

\* C13 as stated: with algorithm='lucas-lehmer', ValueError is raised only
\* when no p is supplied and n is not recognizably of Mersenne form; with p
\* omitted and n recognizably 2^p - 1 the call returns a boolean.
C13_ExponentOptionalForMersenne ==
    (op = "is_prime_cpu" /\ alg = "lucas-lehmer")
        => /\ ret = "ValueError" => (~hasP /\ ~MersenneForm(n))
           /\ (~hasP /\ MersenneForm(n)) => ret \in {"True", "False"}

\* C13 amended: with algorithm='lucas-lehmer', ValueError (exponent
\* required) is raised exactly when no p is supplied, whatever n is; with p
\* supplied the call returns LucasLehmer.test(p).
C13_ExponentAlwaysRequired ==
    (op = "is_prime_cpu" /\ alg = "lucas-lehmer")
        => /\ ret = "ValueError" <=> ~hasP
           /\ ~hasP => (err = "requires-p" /\ used = <<>>)
           /\ hasP => ret = Bool(LucasLehmer_test(p, TRUE))

C13_Witness ==
    /\ op = "is_prime_cpu"
    /\ alg = "lucas-lehmer"
    /\ n = 127
    /\ ~hasP
    /\ ret = "ValueError"
    /\ err = "requires-p"

\* C14: an algorithm outside {auto, miller-rabin, lucas-lehmer, bpsw} raises
\* ValueError and invokes no tester; an algorithm inside that set never
\* raises the unknown-algorithm error.
C14_UnknownAlgorithmOnly ==
    op = "is_prime_cpu"
        => /\ alg \notin KnownAlgorithms
                => (ret = "ValueError" /\ err = "unknown-algorithm" /\ used = <<>>)
           /\ alg \in KnownAlgorithms => err # "unknown-algorithm"

\* C15: is_prime_cpu(n, 'miller-rabin', use_deterministic=True) runs
\* MillerRabin.test in deterministic mode.
C15_DispatcherHonoursDeterministic ==
    (op = "is_prime_cpu" /\ alg = "miller-rabin" /\ kwdet) => det

\* C16: the Miller-Rabin stage of BPSW.test evaluates exactly one witness,
\* the fixed base 2, for every odd n > 2 that reaches it, whatever the
\* magnitude of n.
C16_BPSWStageUsesBaseTwo ==
    ((op = "bpsw" /\ n > 2 /\ n % 2 = 1) \/ (op = "bpsw-stage-wide" /\ WOdd(bign)))
        => wits = <<2>>

\* C17: for every n < 1000 (0, 1 and negatives included) is_prime_small(n)
\* is True exactly when n is prime; for every odd n with 3 < n < 2^64,
\* MillerRabin.test(n) returns is_prime_small(n) whatever rounds and mode,
\* and evaluates no witness.
C17_SmallCheckExact ==
    /\ (op = "is_prime_small" /\ n < TrialLimit)
            => (ret = "True" <=> IsPrimeRef(n))
    /\ (op = "miller-rabin" /\ n > 3 /\ n % 2 = 1 /\ BelowTwoTo64(n))
            => (ret = Bool(is_prime_small(n)) /\ wits = <<>>)

C17_Witness ==
    /\ op = "is_prime_small"
    /\ n = 997
    /\ isqrt(n) = 31
    /\ ret = "True"

\* C18: for every n <= 1, MillerRabin.test, LucasPrimality.test, BPSW.test
\* and is_prime_cpu in auto mode return False without error; for n = 2 they
\* all return True.
C18_TrivialInputs ==
    (op \in {"miller-rabin", "lucas", "bpsw"} \/ (op = "is_prime_cpu" /\ alg = "auto"))
        => /\ n <= 1 => (ret = "False" /\ err = "")
           /\ n = 2 => (ret = "True" /\ err = "")

C18_Witness ==
    /\ op = "is_prime_cpu"
    /\ alg = "auto"
    /\ n = 1
    /\ used = <<"bpsw">>
    /\ ret = "False"

\* C19: for every composite n >= 4, even or odd, perfect squares included,
\* LucasPrimality.test(n) returns False.
C19_LucasRejectsComposites ==
    (op = "lucas" /\ IsCompositeRef(n)) => ret = "False"

\* whether the call drew its witnesses from the random source
DrewWitnesses ==
    /\ op \in {"miller-rabin-wide", "bpsw-stage-wide"}
    /\ WOdd(bign)
    /\ ~(det /\ WLess(bign, DetThresholdW))

\* C20 as stated: two invocations of a tester with equal arguments return
\* the same boolean, whatever random draws happen in between.
C20_TestersArePure ==
    again => ret2 = ret

\* C20 amended: two invocations with equal arguments return the same
\* boolean unless MillerRabin.test draws random witnesses (n >= 2^64 and
\* not deterministic mode below the threshold), directly or as the first
\* stage of BPSW.test.
C20_PureUnlessWitnessesDrawn ==
    (again /\ ~DrewWitnesses) => ret2 = ret

C20_Witness ==
    /\ again
    /\ op = "miller-rabin-wide"
    /\ bign = Psi12W
    /\ det
    /\ Len(wits) = Len(deterministic_bases)
    /\ ret = "True"
    /\ ret2 = "True"

\* C22: for odd n >= 2^64, MillerRabin.test names as witnesses the fixed
\* list 2, 3, ..., 37 filtered to values < n exactly when use_deterministic
\* is set and n < 3317044064679887385961981, and in every other case
\* exactly rounds values drawn from [2, n-2]; deterministic mode at or above
\* the threshold is not rejected but tested with the drawn values.
C22_WitnessChoice ==
    (op = "miller-rabin-wide" /\ WOdd(bign))
        => /\ ret \in {"True", "False"}
           /\ IF det /\ WLess(bign, DetThresholdW)
              THEN chosen = deterministic_bases
              ELSE /\ Len(chosen) = rounds
                   /\ chosen # deterministic_bases
                   /\ \A i \in 1..Len(chosen) :
                         /\ chosen[i] >= 2
                         /\ WLess(WFromInt(chosen[i]), WSub(bign, WOne))

C22_Witness ==
    /\ op = "miller-rabin-wide"
    /\ bign = DetThresholdW
    /\ det
    /\ chosen = <<43>>
    /\ ret = "False"

\* C23: for every odd n > 2, BPSW.test invokes the Lucas tester only after
\* its Miller-Rabin stage returned True; when the stage returns False it
\* returns False without invoking Lucas; otherwise its result is exactly
\* LucasPrimality.test(n).
C23_LucasOnlyAfterMillerRabin ==
    (op = "bpsw" /\ n > 2 /\ n % 2 = 1)
        => /\ stage \in {"True", "False"}
           /\ used[1] = "miller-rabin"
           /\ stage = "False" => (ret = "False" /\ used = <<"miller-rabin">>)
           /\ stage = "True"
                => /\ used = <<"miller-rabin", "lucas">>
                   /\ ret = Bool(LucasPrimality_test(n))

C23_Witness ==
    /\ op = "bpsw"
    /\ n = 7
    /\ stage = "True"
    /\ used = <<"miller-rabin", "lucas">>
    /\ ret = "True"

\* the exponents e up to 1279 for which 2^e - 1 is prime
MersenneRef == {2, 3, 5, 7, 13, 17, 19, 31, 61, 89, 107, 127, 521, 607, 1279}

\* the k-th term of S_0 = 4, S_j = (S_(j-1)^2 - 2) mod (2^e - 1)
RECURSIVE RefLLTerm(_, _)
RefLLTerm(e, k) ==
    IF k = 0 THEN 4
    ELSE LET prev == RefLLTerm(e, k - 1)
         IN  (prev * prev - 2) % (Pow2(e) - 1)

\* the integer a sequence of limbs holds
RECURSIVE LimbsValue(_, _)
LimbsValue(u, i) ==
    IF i > Len(u) THEN 0 ELSE u[i] + MpzRadix * LimbsValue(u, i + 1)

\* 0 <= u < 2^e - 1 for a sequence of limbs u
LimbsBelowMersenne(u, e) ==
    /\ Len(u) = e \div MpzLimbBits + 1
    /\ \A i \in 1..Len(u) : u[i] >= 0 /\ u[i] < MpzRadix
    /\ u[e \div MpzLimbBits + 1] < Pow2(e % MpzLimbBits)
    /\ \E j \in 0..(e - 1) :
          (u[j \div MpzLimbBits + 1] \div Pow2(j % MpzLimbBits)) % 2 = 0

\* C24: for every prime p >= 3, LucasLehmer.test starts from s = 4 and
\* applies s <- (s*s - 2) mod (2^p - 1) exactly p - 2 times, with
\* 0 <= s < 2^p - 1 after every iteration, then returns (s = 0); for p = 2
\* and for every p rejected by is_prime_small the iteration runs zero times;
\* the number of iterations and the result are the same with show_progress
\* on or off, also where the flag puts the progress bar around the iterator.
C24_LucasLehmerIteration ==
    /\ op = "lucas-lehmer"
          => /\ IF p >= 3 /\ IsPrimeRef(p)
                THEN /\ Len(lls) = p - 2
                     /\ \A i \in 1..Len(lls) :
                           LET prev == IF i = 1 THEN 4 ELSE lls[i - 1]
                           IN  /\ lls[i] >= 0
                               /\ lls[i] < Pow2(p) - 1
                               /\ lls[i] = (prev * prev - 2) % (Pow2(p) - 1)
                     /\ ret = Bool(lls[Len(lls)] = 0)
                ELSE lls = <<>>
             /\ lls = LucasLehmer_trace(p, ~showp)
             /\ ret = Bool(LucasLehmer_test(p, ~showp))
    /\ op = "lucas-lehmer-run"
          => /\ IF ll.p >= 3 /\ IsPrimeRef(ll.p)
                THEN /\ ll.iterator.stop = ll.p - 2
                     /\ ll.iterator.next <= ll.p - 2
                     /\ ll.iterator.next = 0 => ll.s = MpzFromInt(4, ll.p)
                     /\ LimbsBelowMersenne(ll.s, ll.p)
                     /\ ll.p <= MaxP
                           => LimbsValue(ll.s, 1)
                                 = RefLLTerm(ll.p, ll.iterator.next)
                     /\ ll.iterator.bar
                           = (ll.show_progress /\ ll.p > ProgressFrom)
                     /\ ll.iterator.shown
                           = IF ll.iterator.bar THEN ll.iterator.next ELSE 0
                     /\ ll.pc = "done"
                           => /\ ll.iterator.next = ll.p - 2
                              /\ ll.ret = Bool(\A i \in 1..Len(ll.s) :
                                                    ll.s[i] = 0)
                              /\ ll.ret = Bool(ll.p \in MersenneRef)
                ELSE /\ ll.pc = "done"
                     /\ ll.iterator.next = 0
                     /\ ll.ret = Bool(ll.p = 2)
             /\ (ll.calls = 2 /\ ll.pc = "done")
                   => /\ ll.first.iterations = ll.iterator.next
                      /\ ll.first.ret = ll.ret

C24_Witness ==
    /\ op = "lucas-lehmer-run"
    /\ ll.p = 1279
    /\ ll.show_progress
    /\ ll.iterator.bar
    /\ ll.iterator.shown = 1277
    /\ ll.pc = "done"
    /\ ll.ret = "True"
    /\ ll.calls = 2
    /\ ll.first = [iterations |-> 1277, ret |-> "True"]

\* C25: in generate_random_probable_prime(bits) with bits >= 1, every
\* candidate that reaches the primality check has bit length exactly bits and
\* is odd; the value returned is the first sampled candidate that passes the
\* check, and no candidate that failed is ever returned.
C25_GeneratorCandidates ==
    (op = "generate" /\ gbits >= 1)
        => /\ gcand # 0 => /\ bit_length(gcand) = gbits
                           /\ gcand >= Pow2(gbits - 1)
                           /\ gcand % 2 = 1
           /\ (gpc = "loop" /\ gcand # 0)
                 => (~is_probably_prime(gcand, 5) /\ gret = 0)
           /\ gpc = "done" => /\ gret = gcand
                              /\ is_probably_prime(gret, 5)

C25_Witness ==
    /\ op = "generate"
    /\ gbits = MaxBits
    /\ gpc = "loop"
    /\ gcand = Pow2(MaxBits - 1) + 1
    /\ ~IsPrimeRef(gcand)
    /\ gret = 0

\* C26 as stated: for every odd n >= 3, _find_D probes D in the order
\* 5, -7, 9, -11, ... (k-th probe = (-1)^k * (5 + 2k)), returns the first
\* probed D whose Jacobi symbol is -1, probes at most (n-3)/2 + 1 values, and
\* no D with |D| > n is ever tested or returned.
C26_FindDStaysWithinN ==
    (op = "lucas" /\ n >= 3 /\ n % 2 = 1)
        => /\ \A i \in 1..Len(probes) : abs(probes[i]) <= n
           /\ foundD => abs(D) <= n

\* C26 amended: for every odd n >= 3, _find_D probes D in the order
\* 5, -7, 9, -11, ... (k-th probe = (-1)^k * (5 + 2k)), returns the first
\* probed D whose Jacobi symbol is -1 and None when no probed D has it, and
\* probes at most (n-3)/2 + 1 values; the first probe D = 5 is tested
\* without comparing it with n (for n = 3 it is tested and returned), and
\* every later probe has |D| <= n.
C26_FindDProbeOrder ==
    (op = "lucas" /\ n >= 3 /\ n % 2 = 1)
        => /\ Len(probes) >= 1
           /\ Len(probes) <= ((n - 3) \div 2) + 1
           /\ \A i \in 1..Len(probes) :
                 /\ probes[i] = (IF i % 2 = 1 THEN 1 ELSE -1) * (5 + 2 * (i - 1))
                 /\ i > 1 => abs(probes[i]) <= n
                 /\ i < Len(probes) => jacobi_symbol(probes[i], n) # -1
           /\ foundD <=> jacobi_symbol(probes[Len(probes)], n) = -1
           /\ foundD => D = probes[Len(probes)]
           /\ ~foundD => abs(probes[Len(probes)]) + 2 > n
           /\ n = 3 => (probes = <<5>> /\ foundD /\ D = 5)

C26_Witness ==
    /\ op = "lucas"
    /\ n = 9
    /\ probes = <<5, -7, 9>>
    /\ ~foundD
    /\ ret = "False"

\* C27: every discriminant D probed by _find_D satisfies D = 1 (mod 4), so
\* the floor division Q = (1 - D) // 4 of _lucas_sequence_test is exact:
\* 4*Q = 1 - D for every accepted D, positive or negative, with P = 1.
C27_DiscriminantOneModFour ==
    (op = "lucas" /\ n >= 3 /\ n % 2 = 1)
        => /\ \A i \in 1..Len(probes) :
                 /\ probes[i] % 4 = 1
                 /\ 4 * lucas_Q(probes[i]) = 1 - probes[i]
           /\ foundD => /\ D % 4 = 1
                        /\ 4 * lucas_Q(D) = 1 - D
                        /\ lucas_P * lucas_P - 4 * lucas_Q(D) = D
                        /\ lucas_P = 1

C27_Witness ==
    /\ op = "lucas"
    /\ n = 19
    /\ foundD
    /\ D = -7
    /\ lucas_Q(D) = 2
    /\ ranLadder

\* C28: under fair sampling generate_random_probable_prime(bits) eventually
\* returns for every bits >= 2; for bits = 1 the only candidate is 1, which
\* never passes, so the loop never returns; for bits = 2 the only value ever
\* returned is 3.
C28_GeneratorReturns ==
    /\ (gpc = "loop" /\ gbits >= 2) ~> (gpc = "done" /\ gret # 0)
    /\ [](gbits = 1 => (gpc = "loop" /\ gcand \in {0, 1} /\ gret = 0))
    /\ []((gpc = "done" /\ gbits = 2) => gret = 3)

C28_Witness ==
    /\ op = "generate"
    /\ gbits = 2
    /\ gpc = "done"
    /\ gret = 3

\* C29: with algorithm='lucas-lehmer' and an exponent p supplied, the result
\* of is_prime_cpu(n, ...) depends only on p and not on n: for any two
\* inputs n1, n2 and the same p the call returns the same value
\* LucasLehmer.test(p), and no check that n = 2^p - 1 is made.
C29_ResultDependsOnlyOnP ==
    (op = "is_prime_cpu" /\ alg = "lucas-lehmer" /\ hasP)
        => /\ used = <<"lucas-lehmer">>
           /\ err = ""
           /\ \A n2 \in Nums :
                 is_prime_cpu(n2, alg, hasP, p, rounds, kwdet, <<>>).ret = ret
           /\ (p >= 1 /\ n # Pow2(p) - 1 /\ IsPrimeRef(Pow2(p) - 1))
                 => ret = "True"

C29_Witness ==
    /\ op = "is_prime_cpu"
    /\ alg = "lucas-lehmer"
    /\ hasP
    /\ p = 5
    /\ n = 9
    /\ ret = "True"

\* C30: the Mersenne-candidate loop of the generate command (count >= 1)
\* eventually collects count candidates for every bits >= 1, the default
\* bits = 256 included; each accepted pair (p, 2^p - 1) has bit length
\* p >= bits, where p is a probable prime of exactly max(7, bits // 100) bits.
C30_MersenneLoopCollects ==
    /\ (cli.pc = "loop") ~> (cli.pc = "done" /\ Len(cli.primes) = cli.count)
    /\ [](\A i \in 1..Len(cli.primes) :
             /\ cli.primes[i][2] = cli.primes[i][1]
             /\ cli.primes[i][1] >= cli.bits
             /\ bit_length(cli.primes[i][1]) = cli_pbits(cli.bits))

\* the locations the invocation of thread t owns, and those of the instance
\* and of the modules
OwnedBy(t) == {t} \X LocalNames

SharedLocs == {0} \X SharedNames

====
